---------------------------- MODULE Spec2Model ----------------------------
(***************************************************************************)
(* Model of the batch ingestion pipeline of sp_api:                        *)
(*   - StagingHandler (utils/sql_staging_definitions.py): the staging,     *)
(*     archive and ProcessingControl tables and the append_data /          *)
(*     replace_data write protocols;                                       *)
(*   - BatchProcessor.process_orders (utils/batch_processor.py): the date  *)
(*     chunk loop, the cursor loop, the retry loop and the order buffer;   *)
(*     process_orders_incremental and process_inventory;                   *)
(*   - SPAPIProcessor.process_orders (main.py): the 30-day loop around     *)
(*     process_orders;                                                     *)
(*   - RateLimiter (utils/rate_limiter.py): acquire, with time counted in  *)
(*     ticks and a coroutine running from one await to the next.           *)
(*                                                                         *)
(* The specifications share the variables:                                 *)
(*   Spec            one process_orders run against the staging store;     *)
(*   PagingSpec      the same run against an upstream of few records, for  *)
(*                   the retry loop and the cursor loop;                   *)
(*   StoreSpec       a sequence of direct append_data / replace_data calls;*)
(*   SmallStoreSpec  the same calls with short batches of one order key;   *)
(*   PartitionSpec   two such calls with batches of two order keys;        *)
(*   ConcurrentSpec  append_data / replace_data calls of several callers,  *)
(*                   interleaved statement by statement;                   *)
(*   LedgerSpec      two such calls in all;                                *)
(*   RaceSpec        append_data calls on Orders alone, interleaved;       *)
(*   FaultySpec      a process_orders run whose writes may fail;           *)
(*   IncrementalSpec, ResumeSpec, RangeSpec  a process_orders_incremental  *)
(*                   run;                                                  *)
(*   BufferSpec      a process_orders run over dated orders;               *)
(*   ProcessorSpec   a SPAPIProcessor.process_orders call;                 *)
(*   StatsSpec       the same call over an upstream of one page a chunk;   *)
(*   ChunkingSpec, FairChunkingSpec  the date chunks of both loops, over   *)
(*                   an upstream without orders;                           *)
(*   ArchiveSpec     direct append_data, replace_data and archive_data     *)
(*                   calls;                                                *)
(*   InventorySpec   a process_inventory call;                             *)
(*   EntrySpec, FairEntrySpec  one call of one of the entry points;        *)
(*   LimiterSpec     acquire calls of one coroutine on a RateLimiter;      *)
(*   SharedLimiterSpec  acquire calls of coroutines sharing a RateLimiter. *)
(* env holds the limits of what the environment does.                      *)
(*                                                                         *)
(* Conventions: an optional Python value is a sequence, << >> for None and *)
(* <<v>> for a value; a database NULL in a key column is the string        *)
(* "NULL"; uuid.uuid4() is a fresh number; dates are day numbers.          *)
(***************************************************************************)
EXTENDS Integers, Sequences, FiniteSets, TLC

VARIABLES
    env,              \* limits of the environment: upstream, callers, storage faults
    db,               \* the database: staging, archive, control tables
    calls,            \* StoreSpec: history of the store calls made so far
    cfg,              \* the run's inputs: batch_size, max_retries, mode, dates
    pc,               \* position of process_orders: "start", "run", "done"
    chunkIdx,         \* index of the current date chunk
    next_token,       \* local next_token of the cursor loop
    retry_count,      \* local retry_count of the retry loop
    orders_buffer,    \* local orders_buffer
    orders_response,  \* local orders_response (<< >> while unbound)
    total_stats,      \* local total_stats
    fetchLog,         \* history: every invocation of orders_api.get_orders
    handed,           \* history: every batch handed to the staging store
    chunkErrs,        \* history: the exception caught by each failed chunk
    workers,          \* ConcurrentSpec: the position of each concurrent store call
    outer,            \* the locals of SPAPIProcessor.process_orders
    inv,              \* the locals of BatchProcessor.process_inventory
    rl                \* the RateLimiter, its clock and the coroutines in acquire

vars == <<env, db, calls, cfg, pc, chunkIdx, next_token, retry_count, orders_buffer,
          orders_response, total_stats, fetchLog, handed, chunkErrs, workers, outer, inv,
          rl>>

runVars == <<env, cfg, pc, chunkIdx, next_token, retry_count, orders_buffer,
             orders_response, total_stats, fetchLog, handed, chunkErrs, workers, outer, inv,
             rl>>

-----------------------------------------------------------------------------
(* Bounds of the model *)

MaxBatchLen == 2      \* longest batch given to a direct store call
MaxCalls == 3         \* number of direct store calls in StoreSpec
MaxFaults == 1        \* number of those calls in which the storage layer fails
MaxRecords == 3       \* most records the upstream returns over one run
MaxPages == 2         \* most pages the upstream returns for one chunk
MaxFailures == 2      \* most failing upstream invocations over one run
PagingMaxRecords == 1 \* PagingSpec: most records the upstream returns over one run
SmallMaxCalls == 2    \* SmallStoreSpec: number of direct store calls
SmallMaxLen == 1      \* SmallStoreSpec: longest batch given to a store call
NumWorkers == 2       \* ConcurrentSpec: callers of the store running at once
IncMaxPages == 1      \* IncrementalSpec: most pages the upstream returns for one chunk
IncMaxFailures == 1   \* IncrementalSpec: most failing upstream invocations over one run
ResumeMaxRecords == 2 \* ResumeSpec: most records the upstream returns over one run
FaultyMaxRecords == 2 \* FaultySpec: most records the upstream returns over one run
ProcessorMaxFailures == 3 \* ProcessorSpec: most failing upstream invocations in one call
MaxTime == 9          \* LimiterSpec: last tick of the clock
MaxAcquires == 3      \* LimiterSpec: acquire calls made in all
MaxJitter == 1        \* LimiterSpec: largest random.uniform(0, 0.1), in ticks (rounded up)
NumCoroutines == 2    \* SharedLimiterSpec: coroutines sharing the RateLimiter
EntryMaxRecords == 1  \* most records the upstream returns to a call of an entry point
MaxEndDate == 70      \* ChunkingSpec: latest end date of a range
MaxBatchSize == 2     \* largest configured batch_size
MaxRetries == 2       \* largest configured max_retries

-----------------------------------------------------------------------------
(* Records *)

None == << >>
Some(v) == <<v>>

\* dict.get(field): the value, or None (NULL once stored in a column)
Get(record, field) == IF field \in DOMAIN record THEN record[field] ELSE "NULL"

\* An order as the upstream returns it; PurchaseDate is an ISO string.
IsoString(d) == <<"iso", d>>
OrderRecords ==
    { [AmazonOrderId |-> "A", PurchaseDate |-> IsoString(1)],
      [AmazonOrderId |-> "B", PurchaseDate |-> IsoString(2)],
      [AmazonOrderId |-> "A"] }

InventoryRecords == { [SellerSKU |-> "S1"] }

\* datetime.fromisoformat on a well-formed ISO string
fromisoformat(s) == s[2]

\* json.dumps(record): the serialized payload kept in RawData
json_dumps(record) == <<"json", record>>

SeqsUpTo(S, n) == UNION { [1..k -> S] : k \in 0..n }

RECURSIVE SelectSeq2(_, _)
\* [x for x in s if x not in keys'...]: order-preserving filter on a predicate set
SelectSeq2(s, keep) ==
    IF s = << >> THEN << >>
    ELSE IF Head(s) \in keep THEN <<Head(s)>> \o SelectSeq2(Tail(s), keep)
         ELSE SelectSeq2(Tail(s), keep)

-----------------------------------------------------------------------------
(* The database schema (STAGING_SCHEMAS, ARCHIVE_SCHEMAS) *)

Tables == {"Orders", "Inventory"}

StagingColumns(table) ==
    IF table = "Orders"
    THEN {"StagingId", "AmazonOrderId", "RawData", "ProcessedDate", "ValidationStatus",
          "ValidationMessage", "IsDuplicate", "BatchId", "InsertedAt"}
    ELSE {"StagingId", "SellerSKU", "ASIN", "RawData", "ProcessedDate", "ValidationStatus",
          "ValidationMessage", "IsDuplicate", "BatchId", "InsertedAt"}

ArchiveColumns(table) ==
    IF table = "Orders"
    THEN {"ArchiveId", "OriginalId", "AmazonOrderId", "RawData", "ProcessedDate",
          "BatchId", "ArchivedAt"}
    ELSE {"ArchiveId", "OriginalId", "SellerSKU", "ASIN", "RawData", "ProcessedDate",
          "BatchId", "ArchivedAt"}

\* columns named by the INSERT of append_data and replace_data
InsertColumns == {"AmazonOrderId", "RawData", "BatchId", "ValidationStatus"}

\* columns read from staging and written to archive by archive_data
ArchiveSelectColumns == {"StagingId", "AmazonOrderId", "RawData", "ProcessedDate", "BatchId"}
ArchiveInsertColumns == {"OriginalId", "AmazonOrderId", "RawData", "ProcessedDate", "BatchId"}

EmptyDb ==
    [ staging |-> [t \in Tables |-> << >>],
      archive |-> [t \in Tables |-> << >>],
      control |-> << >>,
      nextStagingId |-> [t \in Tables |-> 1],
      nextBatch |-> 1 ]


-----------------------------------------------------------------------------
(* StagingHandler: the ProcessingControl ledger *)

\* record_processing_start: INSERT ... 'IN_PROGRESS'; SELECT SCOPE_IDENTITY()
record_processing_start(d, data_type, batch_id) ==
    [ d EXCEPT !.control = Append(@,
        [ DataType |-> data_type, LastBatchId |-> batch_id, Status |-> "IN_PROGRESS",
          LastProcessedDate |-> None, RecordsProcessed |-> None ]) ]

\* the control_id returned by record_processing_start on d (IDENTITY(1,1))
ScopeIdentity(d) == Len(d.control) + 1

\* record_processing_complete: UPDATE ... WHERE Id = control_id
record_processing_complete(d, control_id, last_processed_date, records_processed, status) ==
    [ d EXCEPT !.control[control_id] =
        [ @ EXCEPT !.Status = status,
                   !.LastProcessedDate = Some(last_processed_date),
                   !.RecordsProcessed = Some(records_processed) ] ]

\* last_processed_date or datetime.now()
OrNow(last_processed_date, now) ==
    IF last_processed_date = None THEN now ELSE last_processed_date[1]

RECURSIVE MaxOf(_)
MaxOf(S) == LET x == CHOOSE y \in S : TRUE
            IN IF S = {x} THEN x
               ELSE LET m == MaxOf(S \ {x}) IN IF x > m THEN x ELSE m

\* the control entries SELECT ... WHERE DataType = ? AND Status = 'SUCCESS' reads
SuccessEntries(d, data_type) ==
    { i \in DOMAIN d.control :
        d.control[i].DataType = data_type /\ d.control[i].Status = "SUCCESS" }

\* variant: ORDER BY Id DESC, the entry written last
get_last_processed_date_LastWritten(d, data_type) ==
    IF SuccessEntries(d, data_type) = {} THEN None
    ELSE d.control[MaxOf(SuccessEntries(d, data_type))].LastProcessedDate

\* get_last_processed_date: SELECT TOP 1 LastProcessedDate ... ORDER BY
\* LastProcessedDate DESC; result[0] if result else None
get_last_processed_date(d, data_type) ==
    IF SuccessEntries(d, data_type) = {} THEN None
    ELSE Some(MaxOf({ d.control[i].LastProcessedDate[1] : i \in SuccessEntries(d, data_type) }))

-----------------------------------------------------------------------------
(* StagingHandler: staging and archive *)

\* the business key append_data dedups on
dedup_key(table_name) ==
    IF table_name = "Orders" THEN "AmazonOrderId"
    ELSE IF table_name = "Inventory" THEN "SellerSKU"
    ELSE "NULL"

\* variant: the keys of the archive are read too
existing_keys_set_WithArchive(d, table_name) ==
    { Get(d.staging[table_name][i], dedup_key(table_name)) :
        i \in DOMAIN d.staging[table_name] }
    \cup { d.archive[table_name][i].AmazonOrderId : i \in DOMAIN d.archive[table_name] }

\* SELECT DISTINCT <dedup_key> FROM [stage].[SP_API_<table>]
existing_keys_set(d, table_name) ==
    { Get(d.staging[table_name][i], dedup_key(table_name)) :
        i \in DOMAIN d.staging[table_name] }

\* new_data = [record for record in data if record.get(dedup_key) not in existing_keys_set]
new_data(data, table_name, existing) ==
    SelectSeq2(data, { r \in {data[i] : i \in DOMAIN data} :
                          Get(r, dedup_key(table_name)) \notin existing })

\* the row one INSERT ... VALUES (?, ?, ?, 'PENDING') creates
StagingRow(id, key, record, batch_id) ==
    [ StagingId |-> id, AmazonOrderId |-> key, RawData |-> json_dumps(record),
      BatchId |-> batch_id, ValidationStatus |-> "PENDING" ]

\* variant: the staging table refuses a key it already holds (a unique index)
InsertAll_UniqueKey(d, table_name, records, key_field, batch_id) ==
    LET held == { d.staging[table_name][i].AmazonOrderId : i \in DOMAIN d.staging[table_name] }
        kept == SelectSeq2(records, { r \in { records[i] : i \in DOMAIN records } :
                                         Get(r, key_field) \notin held })
        first == d.nextStagingId[table_name]
        rows == [ i \in 1..Len(kept) |->
                    StagingRow(first + i - 1, Get(kept[i], key_field), kept[i], batch_id) ]
    IN [ d EXCEPT !.staging[table_name] = @ \o rows,
                  !.nextStagingId[table_name] = @ + Len(kept) ]

\* for record in records: cursor.execute(insert_sql, record.get(key_field), ...); commit
InsertAll(d, table_name, records, key_field, batch_id) ==
    LET first == d.nextStagingId[table_name]
        rows == [ i \in 1..Len(records) |->
                    StagingRow(first + i - 1, Get(records[i], key_field), records[i], batch_id) ]
    IN [ d EXCEPT !.staging[table_name] = @ \o rows,
                  !.nextStagingId[table_name] = @ + Len(records) ]

\* the INSERT statement of append_data / replace_data is valid SQL for the table
InsertSqlValid(table_name) == InsertColumns \subseteq StagingColumns(table_name)

\* the two statements of archive_data are valid SQL for the table
ArchiveSqlValid(table_name) ==
    /\ ArchiveSelectColumns \subseteq StagingColumns(table_name)
    /\ ArchiveInsertColumns \subseteq ArchiveColumns(table_name)

\* the archive row INSERT INTO archive ... SELECT makes of a staging row
ArchiveRow(row) ==
    [ OriginalId |-> row.StagingId, AmazonOrderId |-> row.AmazonOrderId,
      RawData |-> row.RawData, BatchId |-> row.BatchId ]

\* variant: WHERE BatchId = ? alone, which a NULL parameter never satisfies
ArchiveSelected_NullMatchesNothing(row, batch_id) == batch_id # None /\ row.BatchId = batch_id[1]

\* WHERE BatchId = ? OR ? IS NULL
ArchiveSelected(row, batch_id) == batch_id = None \/ row.BatchId = batch_id[1]

RECURSIVE FilterRows(_, _, _)
FilterRows(rows, batch_id, wanted) ==
    IF rows = << >> THEN << >>
    ELSE IF ArchiveSelected(Head(rows), batch_id) = wanted
         THEN <<Head(rows)>> \o FilterRows(Tail(rows), batch_id, wanted)
         ELSE FilterRows(Tail(rows), batch_id, wanted)

\* variant: staging is emptied with TRUNCATE TABLE, which reseeds its IDENTITY
archive_data_Truncate(d, table_name, batch_id, fails) ==
    IF fails \/ ~ArchiveSqlValid(table_name)
    THEN [ db |-> d, raised |-> "SQLError" ]
    ELSE [ db |-> [ d EXCEPT !.archive[table_name] =
                               @ \o [ i \in 1..Len(d.staging[table_name]) |->
                                        ArchiveRow(d.staging[table_name][i]) ],
                           !.staging[table_name] = << >>,
                           !.nextStagingId[table_name] = 1 ],
           raised |-> "none" ]

\* archive_data: INSERT INTO archive SELECT ... FROM stage; DELETE FROM stage; commit
\* (one transaction: a failure leaves both tables as they were)
archive_data(d, table_name, batch_id, fails) ==
    IF fails \/ ~ArchiveSqlValid(table_name)
    THEN [ db |-> d, raised |-> "SQLError" ]
    ELSE LET moved == FilterRows(d.staging[table_name], batch_id, TRUE)
             kept == FilterRows(d.staging[table_name], batch_id, FALSE)
         IN [ db |-> [ d EXCEPT !.archive[table_name] =
                                    @ \o [ i \in 1..Len(moved) |-> ArchiveRow(moved[i]) ],
                                !.staging[table_name] = kept ],
              raised |-> "none" ]

\* the steps of a write protocol at which the storage layer can be made to fail
AppendFaults == {"none", "start", "read", "insert", "complete"}
ReplaceFaults == {"none", "start", "archive", "insert", "complete"}

NoResult == [ batch_id |-> 0 ]

\* the except clause of append_data / replace_data once control_id is bound:
\* record_processing_complete(control_id, ..., 0, 'ERROR'); raise
FailCall(d, control_id, last_processed_date, now, error) ==
    [ db |-> record_processing_complete(d, control_id, OrNow(last_processed_date, now), 0, "ERROR"),
      raised |-> error, result |-> NoResult ]

\* append_data(data, table_name, last_processed_date), the whole call
append_data(d, data, table_name, last_processed_date, now, fault) ==
    LET batch_id == d.nextBatch
        d0 == [ d EXCEPT !.nextBatch = @ + 1 ]
        control_id == ScopeIdentity(d0)
        d1 == record_processing_start(d0, table_name, batch_id)
        fresh == new_data(data, table_name, existing_keys_set(d1, table_name))
        d2 == InsertAll(d1, table_name, fresh, dedup_key(table_name), batch_id)
    IN  IF fault = "start"
        \* record_processing_start raised: the except clause reads the unbound control_id
        THEN [ db |-> d0, raised |-> "UnboundLocalError", result |-> NoResult ]
        ELSE IF fault = "read"
        THEN FailCall(d1, control_id, last_processed_date, now, "SQLError")
        ELSE IF fault = "insert" \/ (fresh # << >> /\ ~InsertSqlValid(table_name))
        THEN FailCall(d1, control_id, last_processed_date, now, "SQLError")
        ELSE IF fault = "complete"
        THEN FailCall(d2, control_id, last_processed_date, now, "SQLError")
        ELSE [ db |-> record_processing_complete(d2, control_id,
                          OrNow(last_processed_date, now), Len(fresh), "SUCCESS"),
               raised |-> "none",
               result |-> [ batch_id |-> batch_id,
                            records_processed |-> Len(fresh),
                            duplicates_skipped |-> Len(data) - Len(fresh) ] ]

\* replace_data(data, table_name, last_processed_date), the whole call
replace_data(d, data, table_name, last_processed_date, now, fault) ==
    LET batch_id == d.nextBatch
        d0 == [ d EXCEPT !.nextBatch = @ + 1 ]
        control_id == ScopeIdentity(d0)
        d1 == record_processing_start(d0, table_name, batch_id)
        arch == archive_data(d1, table_name, None, fault = "archive")
        d2 == arch.db
        d3 == InsertAll(d2, table_name, data, "AmazonOrderId", batch_id)
    IN  IF fault = "start"
        THEN [ db |-> d0, raised |-> "UnboundLocalError", result |-> NoResult ]
        ELSE IF arch.raised # "none"
        THEN FailCall(d1, control_id, last_processed_date, now, arch.raised)
        ELSE IF fault = "insert" \/ (data # << >> /\ ~InsertSqlValid(table_name))
        THEN FailCall(d2, control_id, last_processed_date, now, "SQLError")
        ELSE IF fault = "complete"
        THEN FailCall(d3, control_id, last_processed_date, now, "SQLError")
        ELSE [ db |-> record_processing_complete(d3, control_id,
                          OrNow(last_processed_date, now), Len(data), "SUCCESS"),
               raised |-> "none",
               result |-> [ batch_id |-> batch_id, records_processed |-> Len(data) ] ]


-----------------------------------------------------------------------------
(* The callers of the store that ConcurrentSpec runs side by side *)

Workers == 1..NumWorkers

\* a caller that is not inside append_data or replace_data
IdleWorker ==
    [ pc |-> "idle", op |-> "none", table |-> "Orders", data |-> << >>,
      last_processed_date |-> None, batch_id |-> 0, control_id |-> 0,
      new_data |-> << >>, raised |-> "none", faults |-> 0 ]

\* the statistics mapping a run starts from
NewStats(mode) ==
    [ total_processed |-> 0, total_batches |-> 0, errors |-> 0, batch_ids |-> << >>,
      mode |-> mode ]

\* SPAPIProcessor.process_orders and BatchProcessor.process_inventory not called
IdleOuter ==
    [ pc |-> "idle", start_date |-> 0, end_date |-> 0, current_start |-> 0,
      current_end |-> 0, total_stats |-> NewStats("APPEND"),
      chunks |-> << >>, chunk_stats |-> << >> ]

IdleInv ==
    [ pc |-> "idle", sku_list |-> << >>, mode |-> "REPLACE", chunk |-> 0,
      next_token |-> None, retry_count |-> 0, inventory_buffer |-> << >>,
      inventory_response |-> None, total_stats |-> NewStats("REPLACE"),
      fetchLog |-> << >>, handed |-> << >> ]

-----------------------------------------------------------------------------
(* RateLimiter: time is counted in ticks of the clock datetime.now() reads; *)
(* a coroutine runs without interruption from one await to the next         *)

\* ticks in one second: the unit of calls_per_second and minimum_interval
TicksPerSecond == 4

\* calls_per_second given to __init__ (1.0 by default)
CallsPerSecond == { 1, 2, 4 }

\* the endpoint keys
Endpoints == { "orders", "inventory" }

\* self.minimum_interval = 1.0 / calls_per_second
minimum_interval(calls_per_second) == TicksPerSecond \div calls_per_second

\* a coroutine that is not inside acquire
IdleCoroutine == [ pc |-> "idle", endpoint |-> "orders", read |-> None, wake |-> 0 ]

\* RateLimiter.__init__, with n coroutines that may call acquire; now is the
\* clock, returns the history of the returns of acquire
NewLimiter(calls_per_second, n) ==
    [ calls_per_second |-> calls_per_second,
      minimum_interval |-> minimum_interval(calls_per_second),
      last_call_time |-> [ e \in { } |-> 0 ],
      now |-> 0,
      co |-> [ c \in 1..n |-> IdleCoroutine ],
      returns |-> << >> ]

IdleLimiter == NewLimiter(1, 0)

-----------------------------------------------------------------------------
(* StoreSpec: direct calls of append_data and replace_data *)

\* the batches a caller may pass for a table
BatchesFor(table_name) ==
    IF table_name = "Orders" THEN SeqsUpTo(env.orders, env.max_batch_len)
    ELSE SeqsUpTo(InventoryRecords, env.max_batch_len)

\* values of the last_processed_date argument, and readings of datetime.now()
LpdChoices == { None, Some(3) }
Clock == { 9 }

\* BatchProcessor.process_orders not called
IdleProcessOrders ==
    /\ pc = "idle"
    /\ chunkIdx = 0
    /\ next_token = None
    /\ retry_count = 0
    /\ orders_buffer = << >>
    /\ orders_response = None
    /\ total_stats = [ total_processed |-> 0, total_batches |-> 0, errors |-> 0,
                       batch_ids |-> << >>, mode |-> "APPEND" ]
    /\ fetchLog = << >>
    /\ handed = << >>
    /\ chunkErrs = << >>

IdleRun ==
    /\ cfg = [ batch_size |-> 1, max_retries |-> 1, mode |-> "APPEND",
               start_date |-> 0, end_date |-> 0 ]
    /\ IdleProcessOrders
    /\ workers = [ w \in Workers |-> IdleWorker ]
    /\ rl = IdleLimiter
    /\ outer = IdleOuter
    /\ inv = IdleInv

\* orders that carry a PurchaseDate, and those with the key "A"
DatedOrders == { r \in OrderRecords : "PurchaseDate" \in DOMAIN r }
OrdersOfKeyA == { r \in OrderRecords : r.AmazonOrderId = "A" }

StoreEnv(orders, max_batch_len, max_calls, max_faults) ==
    [ orders |-> orders, max_batch_len |-> max_batch_len, max_calls |-> max_calls,
      max_faults |-> max_faults, max_records |-> 0, max_pages |-> 0, max_failures |-> 0 ]

StoreInit ==
    /\ env = StoreEnv(DatedOrders, MaxBatchLen, MaxCalls, MaxFaults)
    /\ db = EmptyDb
    /\ calls = << >>
    /\ IdleRun

CallRecord(op, table_name, data, fault, pre, out) ==
    [ op |-> op, table |-> table_name, data |-> data, fault |-> fault,
      pre |-> pre, raised |-> out.raised, result |-> out.result ]

\* the storage layer fails in at most MaxFaults of the calls
FaultAllowed(fault) ==
    fault = "none" \/ Cardinality({ i \in DOMAIN calls : calls[i].fault # "none" }) < env.max_faults

AppendCall ==
    /\ Len(calls) < env.max_calls
    /\ \E table_name \in Tables, lpd \in LpdChoices, now \in Clock, fault \in AppendFaults :
         \E data \in BatchesFor(table_name) :
            LET out == append_data(db, data, table_name, lpd, now, fault)
            IN /\ FaultAllowed(fault)
               /\ db' = out.db
               /\ calls' = Append(calls, CallRecord("append_data", table_name, data, fault, db, out))
    /\ UNCHANGED runVars

ReplaceCall ==
    /\ Len(calls) < env.max_calls
    /\ \E table_name \in Tables, lpd \in LpdChoices, now \in Clock, fault \in ReplaceFaults :
         \E data \in BatchesFor(table_name) :
            LET out == replace_data(db, data, table_name, lpd, now, fault)
            IN /\ FaultAllowed(fault)
               /\ db' = out.db
               /\ calls' = Append(calls, CallRecord("replace_data", table_name, data, fault, db, out))
    /\ UNCHANGED runVars

StoreNext == AppendCall \/ ReplaceCall

StoreSpec == StoreInit /\ [][StoreNext]_vars

SmallStoreInit ==
    /\ env = StoreEnv(DatedOrders \cap OrdersOfKeyA, SmallMaxLen, SmallMaxCalls, MaxFaults)
    /\ db = EmptyDb
    /\ calls = << >>
    /\ IdleRun

SmallStoreSpec == SmallStoreInit /\ [][StoreNext]_vars

\* the database after append_data of one order and a replace_data that archived it
ArchivedDb ==
    replace_data(append_data(EmptyDb, << CHOOSE r \in DatedOrders : r.AmazonOrderId = "A" >>,
                             "Orders", None, 9, "none").db,
                 << >>, "Orders", None, 9, "none").db

\* PartitionSpec: two direct calls with batches of up to two orders of two
\* keys, on an empty database or on one with an archived order
PartitionInit ==
    /\ env = StoreEnv(DatedOrders, MaxBatchLen, 2, MaxFaults)
    /\ db \in { EmptyDb, ArchivedDb }
    /\ calls = << >>
    /\ IdleRun

PartitionSpec == PartitionInit /\ [][StoreNext]_vars

-----------------------------------------------------------------------------
(* ConcurrentSpec: append_data and replace_data calls of several callers,   *)
(* interleaved at the statements that commit or read the database           *)

callerVars == <<env, calls, cfg, pc, chunkIdx, next_token, retry_count, orders_buffer,
                orders_response, total_stats, fetchLog, handed, chunkErrs, outer, inv, rl>>

\* how a step of a call can fail: not at all, once (the except clause then
\* reaches the database), or lastingly (the update of the except clause fails too)
StepFaults == { "none", "once", "lasting" }

RECURSIVE FaultsUpTo(_)
FaultsUpTo(n) == IF n = 0 THEN 0 ELSE workers[n].faults + FaultsUpTo(n - 1)

StepFaultAllowed(fault) == fault = "none" \/ FaultsUpTo(NumWorkers) < env.max_faults

FaultCount(fault) == IF fault = "none" THEN 0 ELSE 1

\* except Exception as e: record_processing_complete(control_id, ..., 0, 'ERROR'); raise
Except(w, error, fault, now) ==
    /\ db' = IF fault = "lasting" THEN db
             ELSE FailCall(db, workers[w].control_id, workers[w].last_processed_date,
                           now, error).db
    /\ workers' = [ workers EXCEPT ![w] =
                      [ @ EXCEPT !.pc = "raised",
                                 !.raised = IF fault = "lasting" THEN "SQLError" ELSE error,
                                 !.faults = @ + FaultCount(fault) ] ]

\* a caller enters append_data or replace_data: batch_id = str(uuid.uuid4());
\* control_id = self.record_processing_start(table_name, batch_id)
CallBegin(w) ==
    /\ workers[w].pc \in { "idle", "returned", "raised" }
    /\ db.nextBatch <= env.max_calls
    /\ \E op \in { "append_data", "replace_data" }, table_name \in Tables,
          lpd \in LpdChoices, fault \in { "none", "once" } :
         \E data \in BatchesFor(table_name) :
            LET d0 == [ db EXCEPT !.nextBatch = @ + 1 ]
                call == [ workers[w] EXCEPT !.op = op, !.table = table_name, !.data = data,
                                            !.last_processed_date = lpd,
                                            !.batch_id = db.nextBatch, !.new_data = << >>,
                                            !.control_id = 0, !.raised = "none" ]
            IN /\ StepFaultAllowed(fault)
               /\ IF fault = "none"
                  THEN /\ db' = record_processing_start(d0, table_name, db.nextBatch)
                       /\ workers' = [ workers EXCEPT ![w] =
                             [ call EXCEPT !.pc = "started", !.control_id = ScopeIdentity(d0) ] ]
                  \* the except clause reads the unbound control_id
                  ELSE /\ db' = d0
                       /\ workers' = [ workers EXCEPT ![w] =
                             [ call EXCEPT !.pc = "raised", !.raised = "UnboundLocalError",
                                           !.faults = @ + 1 ] ]
    /\ UNCHANGED callerVars

\* append_data reads the key snapshot and filters the batch
CallReadKeys(w) ==
    /\ workers[w].pc = "started" /\ workers[w].op = "append_data"
    /\ \E fault \in StepFaults, now \in Clock :
         /\ StepFaultAllowed(fault)
         /\ IF fault = "none"
            THEN /\ workers' = [ workers EXCEPT ![w] =
                       [ @ EXCEPT !.pc = "read",
                                  !.new_data = new_data(workers[w].data, workers[w].table,
                                                  existing_keys_set(db, workers[w].table)) ] ]
                 /\ db' = db
            ELSE Except(w, "SQLError", fault, now)
    /\ UNCHANGED callerVars

\* replace_data awaits archive_data(table_name)
CallArchive(w) ==
    /\ workers[w].pc = "started" /\ workers[w].op = "replace_data"
    /\ \E fault \in StepFaults, now \in Clock :
         LET arch == archive_data(db, workers[w].table, None, fault # "none")
         IN /\ StepFaultAllowed(fault)
            /\ IF arch.raised = "none"
               THEN /\ db' = arch.db
                    /\ workers' = [ workers EXCEPT ![w] =
                          [ @ EXCEPT !.pc = "read", !.new_data = workers[w].data ] ]
               ELSE Except(w, arch.raised, fault, now)
    /\ UNCHANGED callerVars

\* the insert loop and its commit
CallInsert(w) ==
    /\ workers[w].pc = "read"
    /\ \E fault \in StepFaults, now \in Clock :
         LET me == workers[w]
             key_field == IF me.op = "append_data" THEN dedup_key(me.table) ELSE "AmazonOrderId"
         IN /\ StepFaultAllowed(fault)
            /\ IF fault = "none" /\ (me.new_data = << >> \/ InsertSqlValid(me.table))
               THEN /\ db' = InsertAll(db, me.table, me.new_data, key_field, me.batch_id)
                    /\ workers' = [ workers EXCEPT ![w] = [ @ EXCEPT !.pc = "inserted" ] ]
               ELSE Except(w, "SQLError", fault, now)
    /\ UNCHANGED callerVars

\* variant: records len(data), the duplicates that were skipped included
CallComplete_CountsBatch(w) ==
    /\ workers[w].pc = "inserted"
    /\ \E fault \in StepFaults, now \in Clock :
         LET me == workers[w]
         IN /\ StepFaultAllowed(fault)
            /\ IF fault = "none"
               THEN /\ db' = record_processing_complete(db, me.control_id,
                                 OrNow(me.last_processed_date, now), Len(me.data), "SUCCESS")
                    /\ workers' = [ workers EXCEPT ![w] = [ @ EXCEPT !.pc = "returned" ] ]
               ELSE Except(w, "SQLError", fault, now)
    /\ UNCHANGED callerVars

\* self.record_processing_complete(control_id, ..., len(new_data)); return
CallComplete(w) ==
    /\ workers[w].pc = "inserted"
    /\ \E fault \in StepFaults, now \in Clock :
         LET me == workers[w]
         IN /\ StepFaultAllowed(fault)
            /\ IF fault = "none"
               THEN /\ db' = record_processing_complete(db, me.control_id,
                                 OrNow(me.last_processed_date, now), Len(me.new_data), "SUCCESS")
                    /\ workers' = [ workers EXCEPT ![w] = [ @ EXCEPT !.pc = "returned" ] ]
               ELSE Except(w, "SQLError", fault, now)
    /\ UNCHANGED callerVars

ConcurrentInit ==
    /\ env = StoreEnv(DatedOrders \cap OrdersOfKeyA, SmallMaxLen, SmallMaxCalls, MaxFaults)
    /\ db = EmptyDb
    /\ calls = << >>
    /\ IdleRun

ConcurrentNext ==
    \E w \in Workers :
       CallBegin(w) \/ CallReadKeys(w) \/ CallArchive(w) \/ CallInsert(w) \/ CallComplete(w)

ConcurrentSpec == ConcurrentInit /\ [][ConcurrentNext]_vars

\* LedgerSpec: two calls in all, of batches of at most one order, with a
\* storage layer that fails in at most one step
LedgerInit ==
    /\ env = StoreEnv(DatedOrders \cap OrdersOfKeyA, 1, 2, 1)
    /\ db = EmptyDb
    /\ calls = << >>
    /\ IdleRun

LedgerSpec == LedgerInit /\ [][ConcurrentNext]_vars

\* the batch_id argument of a direct archive_data call: None, or an id given out
BatchIdChoices == { None } \cup { Some(b) : b \in 1..(db.nextBatch - 1) }

\* variant: delete_sql names the archive table, not the staging table
ArchiveCall_DeletesArchive ==
    /\ Len(calls) < env.max_calls
    /\ \E table_name \in Tables, batch_id \in BatchIdChoices, fails \in BOOLEAN :
         LET out == archive_data(db, table_name, batch_id, fails)
             gone == [ out.db EXCEPT !.staging = db.staging,
                                     !.archive[table_name] = SelectSeq(@,
                                         LAMBDA row : ~ArchiveSelected(row, batch_id)) ]
         IN /\ FaultAllowed(IF fails THEN "archive" ELSE "none")
            /\ db' = IF out.raised = "none" THEN gone ELSE out.db
            /\ calls' = Append(calls,
                   CallRecord("archive_data", table_name, << >>,
                              IF fails THEN "archive" ELSE "none", db,
                              [ raised |-> out.raised, result |-> NoResult ]))
    /\ UNCHANGED runVars

\* a direct call of archive_data(table_name, batch_id)
ArchiveCall ==
    /\ Len(calls) < env.max_calls
    /\ \E table_name \in Tables, batch_id \in BatchIdChoices, fails \in BOOLEAN :
         LET out == archive_data(db, table_name, batch_id, fails)
         IN /\ FaultAllowed(IF fails THEN "archive" ELSE "none")
            /\ db' = out.db
            /\ calls' = Append(calls,
                   CallRecord("archive_data", table_name, << >>,
                              IF fails THEN "archive" ELSE "none", db,
                              [ raised |-> out.raised, result |-> NoResult ]))
    /\ UNCHANGED runVars

\* ArchiveSpec: three direct calls of append_data, replace_data and archive_data
ArchiveInit ==
    /\ env = StoreEnv(DatedOrders \cap OrdersOfKeyA, SmallMaxLen, 3, MaxFaults)
    /\ db = EmptyDb
    /\ calls = << >>
    /\ IdleRun

ArchiveNext == AppendCall \/ ReplaceCall \/ ArchiveCall

ArchiveSpec == ArchiveInit /\ [][ArchiveNext]_vars

\* RaceSpec: append_data calls on the Orders table alone, with a storage layer
\* that is not made to fail
AppendBegin(w) ==
    /\ CallBegin(w)
    /\ workers'[w].op = "append_data"
    /\ workers'[w].table = "Orders"

RaceNext ==
    \E w \in Workers : AppendBegin(w) \/ CallReadKeys(w) \/ CallInsert(w) \/ CallComplete(w)

RaceInit ==
    /\ env = StoreEnv(DatedOrders \cap OrdersOfKeyA, SmallMaxLen, SmallMaxCalls, 0)
    /\ db = EmptyDb
    /\ calls = << >>
    /\ IdleRun

RaceSpec == RaceInit /\ [][RaceNext]_vars


-----------------------------------------------------------------------------
(* BatchProcessor.process_orders *)

ChunkDays == 7

\* variant: the end of a chunk is not capped at the end of the range
Min_Uncapped(a, b) == a

\* min(a, b)
Min(a, b) == IF a < b THEN a ELSE b

RECURSIVE chunk_date_range(_, _, _)
\* _chunk_date_range: the (chunk_start, chunk_end) pairs, in order
chunk_date_range(start_date, end_date, chunk_days) ==
    IF start_date < end_date
    THEN LET chunk_end == Min(start_date + chunk_days, end_date)
         IN <<[start |-> start_date, end |-> chunk_end]>>
              \o chunk_date_range(chunk_end, end_date, chunk_days)
    ELSE << >>

Chunks == chunk_date_range(cfg.start_date, cfg.end_date, ChunkDays)

\* the staging_handler method _process_order_batch calls:
\* if mode == 'APPEND': append_data ... else: replace_data
OrderWriteOp(mode) == IF mode = "APPEND" THEN "append_data" ELSE "replace_data"

\* await staging_handler.append_data(...) / replace_data(...)
StoreWrite(op, d, data, table_name, last_processed_date, now, fault) ==
    IF op = "append_data"
    THEN append_data(d, data, table_name, last_processed_date, now, fault)
    ELSE replace_data(d, data, table_name, last_processed_date, now, fault)

\* variant: the date of the last record that carries one
max_date_LastSeen(orders) ==
    LET dated == { j \in DOMAIN orders : "PurchaseDate" \in DOMAIN orders[j] }
    IN fromisoformat(orders[MaxOf(dated)].PurchaseDate)

\* max(datetime.fromisoformat(order['PurchaseDate']) for order in orders
\*     if 'PurchaseDate' in order)
max_date(orders) ==
    MaxOf({ fromisoformat(orders[i].PurchaseDate) :
              i \in { j \in DOMAIN orders : "PurchaseDate" \in DOMAIN orders[j] } })

\* _process_order_batch(orders, staging_handler, mode): max() of the purchase
\* dates (ValueError on an empty sequence), then append_data or replace_data
process_order_batch(d, orders, mode, now, fault) ==
    LET dates == { fromisoformat(orders[i].PurchaseDate) :
                     i \in { j \in DOMAIN orders : "PurchaseDate" \in DOMAIN orders[j] } }
        out == StoreWrite(OrderWriteOp(mode), d, orders, "Orders", Some(max_date(orders)), now,
                          fault)
    IN  IF dates = {}
        THEN [ db |-> d, raised |-> "ValueError", batch_id |-> 0, handed |-> FALSE,
               result |-> NoResult, op |-> OrderWriteOp(mode) ]
        ELSE [ db |-> out.db, raised |-> out.raised, batch_id |-> out.result.batch_id,
               handed |-> TRUE, result |-> out.result, op |-> OrderWriteOp(mode) ]

\* The locals of one pass through the body of the cursor loop, threaded through
\* its statements; raised # "none" once an exception is on its way to the
\* except clause of the chunk.
Locals ==
    [ db |-> db, buffer |-> orders_buffer, stats |-> total_stats, handed |-> handed,
      raised |-> "none" ]

\* variant: total_processed grows by batch_size, whatever the length of the batch
FlushBatch_CountsBatchSize(L, batch, rest, now, fault) ==
    IF L.raised # "none" THEN L
    ELSE LET r == process_order_batch(L.db, batch, cfg.mode, now, fault)
             h == IF r.handed
                  THEN Append(L.handed, [ chunk |-> chunkIdx, batch |-> batch, fault |-> fault,
                                          raised |-> r.raised, result |-> r.result,
                                          op |-> r.op ])
                  ELSE L.handed
         IN IF r.raised # "none"
            THEN [ L EXCEPT !.db = r.db, !.handed = h, !.raised = r.raised ]
            ELSE [ L EXCEPT !.db = r.db, !.handed = h, !.buffer = rest,
                     !.stats = [ @ EXCEPT !.batch_ids = Append(@, r.batch_id),
                                          !.total_processed = @ + cfg.batch_size,
                                          !.total_batches = @ + 1 ] ]

\* batch_id = await self._process_order_batch(batch, ...); total_stats[...] += ...
\* and orders_buffer = rest
FlushBatch(L, batch, rest, now, fault) ==
    IF L.raised # "none" THEN L
    ELSE LET r == process_order_batch(L.db, batch, cfg.mode, now, fault)
             h == IF r.handed
                  THEN Append(L.handed, [ chunk |-> chunkIdx, batch |-> batch, fault |-> fault,
                                          raised |-> r.raised, result |-> r.result,
                                          op |-> r.op ])
                  ELSE L.handed
         IN IF r.raised # "none"
            THEN [ L EXCEPT !.db = r.db, !.handed = h, !.raised = r.raised ]
            ELSE [ L EXCEPT !.db = r.db, !.handed = h, !.buffer = rest,
                     !.stats = [ @ EXCEPT !.batch_ids = Append(@, r.batch_id),
                                          !.total_processed = @ + Len(batch),
                                          !.total_batches = @ + 1 ] ]

\* variant: the buffer is cleared after the flush instead of keeping its tail
BufferPage_DropsRest(L, orders, now, fault) ==
    IF Len(L.buffer \o orders) >= cfg.batch_size
    THEN FlushBatch([ L EXCEPT !.buffer = L.buffer \o orders ],
                    SubSeq(L.buffer \o orders, 1, cfg.batch_size), << >>, now, fault)
    ELSE [ L EXCEPT !.buffer = L.buffer \o orders ]

\* orders_buffer.extend(orders); if len(orders_buffer) >= self.batch_size: flush
\* orders_buffer[:batch_size] and keep orders_buffer[batch_size:]
BufferPage(L, orders, now, fault) ==
    LET buf == L.buffer \o orders
        L1 == [ L EXCEPT !.buffer = buf ]
    IN IF Len(buf) >= cfg.batch_size
       THEN FlushBatch(L1, SubSeq(buf, 1, cfg.batch_size),
                       SubSeq(buf, cfg.batch_size + 1, Len(buf)), now, fault)
       ELSE L1

\* variant: the remainder of the buffer is not flushed after the cursor loop
FlushRemaining_Never(L, now, fault) == L

\* if orders_buffer: flush all of it (after the cursor loop)
FlushRemaining(L, now, fault) ==
    IF L.raised = "none" /\ L.buffer # << >>
    THEN FlushBatch(L, L.buffer, << >>, now, fault)
    ELSE L

\* variant: the cursor is read under a key the response never carries, so that
\* the loop always sees it absent
CursorLoopEnds_WrongKey(token) == TRUE

\* if not next_token: break
CursorLoopEnds(token) == token = None

\* if retry_count == self.max_retries: raise
RetriesExhausted(count, max_retries) == count = max_retries

\* while retry_count < self.max_retries
MayInvoke(count, max_retries) == count < max_retries

\* variant: the retry loop wraps what it gives up on in the package's base exception
Reraise_Wrapped(error) == "SPAPIException"

\* the exception the bare raise of the retry loop lets out
Reraise(error) == error

\* the for loop moves to the next chunk, or the run returns total_stats
EnterNextChunk ==
    /\ orders_buffer' = << >>
    /\ next_token' = None
    /\ retry_count' = 0
    /\ chunkIdx' = chunkIdx + 1
    /\ pc' = IF chunkIdx + 1 > Len(Chunks) THEN "done" ELSE "run"

\* variant: the except clause ends the run (break) instead of moving on
ChunkFails_EndsRun(stats, error) ==
    /\ total_stats' = [ stats EXCEPT !.errors = @ + 1 ]
    /\ chunkErrs' = Append(chunkErrs, [ chunk |-> chunkIdx, error |-> error ])
    /\ orders_buffer' = << >>
    /\ next_token' = None
    /\ retry_count' = 0
    /\ chunkIdx' = chunkIdx + 1
    /\ pc' = "done"

\* except Exception as e: total_stats['errors'] += 1; continue
ChunkFails(stats, error) ==
    /\ total_stats' = [ stats EXCEPT !.errors = @ + 1 ]
    /\ chunkErrs' = Append(chunkErrs, [ chunk |-> chunkIdx, error |-> error ])
    /\ EnterNextChunk

\* the steps at which the storage layer may fail in the next write of the run,
\* when there is one: it fails in at most env.max_faults of the writes
WriteFaults(written, writes) ==
    IF ~writes \/ Cardinality({ i \in DOMAIN written : written[i].fault # "none" }) >= env.max_faults
    THEN { "none" }
    ELSE IF cfg.mode = "APPEND" THEN AppendFaults ELSE ReplaceFaults

\* lines 100-126 for one response: buffer the page, flush, follow the cursor
HandleResponse(response, now) ==
    \E f1 \in WriteFaults(handed, Len(orders_buffer \o response.Orders) >= cfg.batch_size) :
    \E L1 \in { BufferPage(Locals, response.Orders, now, f1) } :
    \E f2 \in WriteFaults(L1.handed, /\ CursorLoopEnds(response.NextToken)
                                     /\ L1.raised = "none" /\ L1.buffer # << >>) :
    \E L2 \in { IF CursorLoopEnds(response.NextToken) THEN FlushRemaining(L1, now, f2) ELSE L1 } :
       /\ db' = L2.db
       /\ handed' = L2.handed
       /\ IF L2.raised # "none"
          THEN ChunkFails(L2.stats, L2.raised)
          ELSE /\ total_stats' = L2.stats
               /\ chunkErrs' = chunkErrs
               /\ IF CursorLoopEnds(response.NextToken)
                  THEN EnterNextChunk
                  ELSE /\ orders_buffer' = L2.buffer
                       /\ next_token' = response.NextToken
                       /\ retry_count' = 0
                       /\ UNCHANGED <<chunkIdx, pc>>

-----------------------------------------------------------------------------
(* Spec: one process_orders run *)

Modes == {"APPEND", "REPLACE"}

\* end dates of the run, for a start date of day 0: no chunk, one chunk, two chunks
StartDates == { 0 }
EndDates == { 0, 5, 12 }

\* the exceptions orders_api.get_orders lets out: a failed HTTP status
\* (response.raise_for_status()) and the AuthenticationError of a 403
TransientErrors == { "ClientResponseError" }
PermanentErrors == { "AuthenticationError" }
FetchErrors == TransientErrors \cup PermanentErrors

RunEnv(orders, max_records, max_pages, max_failures) ==
    [ orders |-> orders, max_records |-> max_records, max_pages |-> max_pages,
      max_failures |-> max_failures, max_batch_len |-> 0, max_calls |-> 0, max_faults |-> 0 ]

\* the same with a storage layer that may fail in max_faults of the writes
FaultyRunEnv(orders, max_records, max_pages, max_failures, max_faults) ==
    [ RunEnv(orders, max_records, max_pages, max_failures) EXCEPT !.max_faults = max_faults ]

\* the caller of process_orders has chosen the run's inputs
RunStart ==
    /\ calls = << >>
    /\ cfg \in [ batch_size : 1..MaxBatchSize, max_retries : 0..MaxRetries, mode : Modes,
                 start_date : StartDates, end_date : EndDates ]
    /\ pc = "start"
    /\ chunkIdx = 0
    /\ next_token = None
    /\ retry_count = 0
    /\ orders_buffer = << >>
    /\ orders_response = None
    /\ total_stats = [ total_processed |-> 0, total_batches |-> 0, errors |-> 0,
                       batch_ids |-> << >>, mode |-> cfg.mode ]
    /\ fetchLog = << >>
    /\ handed = << >>
    /\ chunkErrs = << >>
    /\ workers = [ w \in Workers |-> IdleWorker ]
    /\ rl = IdleLimiter
    /\ outer = IdleOuter
    /\ inv = IdleInv

RunInit ==
    /\ db = EmptyDb
    /\ RunStart

Init ==
    /\ env = RunEnv(OrderRecords, MaxRecords, MaxPages, MaxFailures)
    /\ RunInit

PagingInit ==
    /\ env = RunEnv(OrdersOfKeyA, PagingMaxRecords, MaxPages, MaxFailures)
    /\ RunInit

\* process_orders is called: total_stats is built and the chunk loop entered
Start ==
    /\ pc = "start"
    /\ total_stats' = [ total_processed |-> 0, total_batches |-> 0, errors |-> 0,
                        batch_ids |-> << >>, mode |-> cfg.mode ]
    /\ EnterNextChunk
    /\ UNCHANGED <<env, rl, db, calls, cfg, orders_response, fetchLog, handed, chunkErrs, workers, outer, inv>>

\* pages the upstream has returned for the current chunk
PagesReturned ==
    Cardinality({ i \in DOMAIN fetchLog :
                    fetchLog[i].chunk = chunkIdx /\ fetchLog[i].outcome = "ok" })

\* the NextToken of the next page: absent, or the number of the page it leads to
TokenChoices ==
    IF PagesReturned + 1 < env.max_pages THEN { None, Some(PagesReturned + 2) } ELSE { None }

LogEntry(outcome, orders, token) ==
    [ chunk |-> chunkIdx, cursor |-> next_token, outcome |-> outcome, orders |-> orders,
      token |-> token ]

RECURSIVE SumLen(_)
SumLen(log) == IF log = << >> THEN 0 ELSE Len(Head(log).orders) + SumLen(Tail(log))

\* records the upstream has returned so far, and invocations it has failed
RecordsReturned == SumLen(fetchLog)
FailuresSoFar == Cardinality({ i \in DOMAIN fetchLog : fetchLog[i].outcome # "ok" })

\* one invocation of orders_api.get_orders that returns a page, and the rest of
\* the body of the cursor loop
InvokeOk ==
    /\ pc = "run"
    /\ MayInvoke(retry_count, cfg.max_retries)
    /\ \E page \in SeqsUpTo(env.orders, env.max_records - RecordsReturned), token \in TokenChoices, now \in Clock :
         LET response == [ Orders |-> page, NextToken |-> token ]
         IN /\ orders_response' = Some(response)
            /\ fetchLog' = Append(fetchLog, LogEntry("ok", page, token))
            /\ HandleResponse(response, now)
    /\ UNCHANGED <<env, rl, calls, cfg, workers, outer, inv>>

\* one invocation of orders_api.get_orders that raises, and the except clause
\* of the retry loop
InvokeFail ==
    /\ pc = "run"
    /\ MayInvoke(retry_count, cfg.max_retries)
    /\ FailuresSoFar < env.max_failures
    /\ \E error \in FetchErrors :
         /\ fetchLog' = Append(fetchLog, LogEntry(error, << >>, None))
         /\ IF RetriesExhausted(retry_count + 1, cfg.max_retries)
            THEN ChunkFails(total_stats, Reraise(error))
            ELSE /\ retry_count' = retry_count + 1
                 /\ UNCHANGED <<total_stats, chunkErrs, orders_buffer, next_token, chunkIdx, pc>>
    /\ UNCHANGED <<env, rl, db, calls, cfg, orders_response, handed, workers, outer, inv>>

\* the retry loop ends on its condition, without an invocation: line 100 reads
\* orders_response as the last invocation left it, or raises on the unbound local
LoopExit ==
    /\ pc = "run"
    /\ ~MayInvoke(retry_count, cfg.max_retries)
    /\ IF orders_response = None
       THEN /\ ChunkFails(total_stats, "UnboundLocalError")
            /\ UNCHANGED <<db, handed>>
       ELSE \E now \in Clock : HandleResponse(orders_response[1], now)
    /\ UNCHANGED <<env, rl, calls, cfg, orders_response, fetchLog, workers, outer, inv>>

Next == Start \/ InvokeOk \/ InvokeFail \/ LoopExit

Spec == Init /\ [][Next]_vars

PagingSpec == PagingInit /\ [][Next]_vars

\* BufferSpec: a run against an upstream of two records, which carry a date
BufferInit ==
    /\ env = RunEnv(DatedOrders, 2, MaxPages, IncMaxFailures)
    /\ RunInit

BufferSpec == BufferInit /\ [][Next]_vars

\* the orders an earlier run staged, in one batch
SeedOrders ==
    << [AmazonOrderId |-> "A", PurchaseDate |-> IsoString(1)],
       [AmazonOrderId |-> "B", PurchaseDate |-> IsoString(2)] >>

\* the database before the run: new, or as an earlier APPEND run left it
SeededDbs == { EmptyDb, process_order_batch(EmptyDb, SeedOrders, "APPEND", 9, "none").db }

\* a process_orders run whose storage layer may fail
FaultyInit ==
    /\ env = FaultyRunEnv(OrdersOfKeyA, FaultyMaxRecords, IncMaxPages, IncMaxFailures, MaxFaults)
    /\ RunInit

FaultySpec == FaultyInit /\ [][Next]_vars

-----------------------------------------------------------------------------
(* IncrementalSpec: one process_orders_incremental run on a database that   *)
(* earlier runs may have written                                            *)

\* timedelta(days=30), the look-back of a first incremental run
DefaultLookbackDays == 30

\* the end_date argument: not given, or a day after now
EndDateArgs == { None, Some(12) }

IncrementalRun ==
    /\ calls = << >>
    /\ cfg \in [ batch_size : 1..MaxBatchSize, max_retries : 0..MaxRetries,
                 end_date_arg : EndDateArgs ]
    /\ pc = "start_incremental"
    /\ chunkIdx = 0
    /\ next_token = None
    /\ retry_count = 0
    /\ orders_buffer = << >>
    /\ orders_response = None
    /\ total_stats = [ total_processed |-> 0, total_batches |-> 0, errors |-> 0,
                       batch_ids |-> << >>, mode |-> "APPEND" ]
    /\ fetchLog = << >>
    /\ handed = << >>
    /\ chunkErrs = << >>
    /\ workers = [ w \in Workers |-> IdleWorker ]
    /\ rl = IdleLimiter
    /\ outer = IdleOuter
    /\ inv = IdleInv

\* variant: the run always starts 30 days back
last_processed_or_default_NoCheckpoint(last_processed, now) == now - DefaultLookbackDays

\* if not last_processed: last_processed = datetime.now() - timedelta(days=30)
last_processed_or_default(last_processed, now) ==
    IF last_processed = None THEN now - DefaultLookbackDays ELSE last_processed[1]

\* process_orders_incremental reads the checkpoint and calls process_orders
\* from it (or from 30 days back) to end_date (or now), in APPEND mode
StartIncremental ==
    /\ pc = "start_incremental"
    /\ \E now \in Clock :
         LET last_processed == get_last_processed_date(db, "Orders")
             start_date == last_processed_or_default(last_processed, now)
             end_date == IF cfg.end_date_arg = None THEN now ELSE cfg.end_date_arg[1]
         IN /\ cfg' = [ batch_size |-> cfg.batch_size, max_retries |-> cfg.max_retries,
                        mode |-> "APPEND", start_date |-> start_date, end_date |-> end_date,
                        checkpoint |-> last_processed ]
            /\ pc' = IF chunk_date_range(start_date, end_date, ChunkDays) = << >>
                     THEN "done" ELSE "run"
    /\ total_stats' = [ total_processed |-> 0, total_batches |-> 0, errors |-> 0,
                        batch_ids |-> << >>, mode |-> "APPEND" ]
    /\ orders_buffer' = << >>
    /\ next_token' = None
    /\ retry_count' = 0
    /\ chunkIdx' = 1
    /\ UNCHANGED <<env, rl, db, calls, orders_response, fetchLog, handed, chunkErrs, workers, outer, inv>>

IncrementalNext == StartIncremental \/ InvokeOk \/ InvokeFail \/ LoopExit

IncrementalInit ==
    /\ env = RunEnv(OrdersOfKeyA, PagingMaxRecords, IncMaxPages, IncMaxFailures)
    /\ db \in SeededDbs
    /\ IncrementalRun

IncrementalSpec == IncrementalInit /\ [][IncrementalNext]_vars

\* the run resumes from the checkpoint of an earlier run
ResumeInit ==
    /\ env = RunEnv(OrderRecords, ResumeMaxRecords, IncMaxPages, IncMaxFailures)
    /\ db \in SeededDbs \ { EmptyDb }
    /\ IncrementalRun

ResumeSpec == ResumeInit /\ [][IncrementalNext]_vars

\* RangeSpec: incremental runs from a checkpoint, and from none with an
\* upstream that fails or returns its one page, without orders
RangeInit ==
    /\ \/ /\ env = RunEnv(OrdersOfKeyA, PagingMaxRecords, IncMaxPages, IncMaxFailures)
          /\ db \in SeededDbs \ { EmptyDb }
       \/ /\ env = RunEnv({}, 0, 1, IncMaxFailures)
          /\ db = EmptyDb
    /\ IncrementalRun

RangeSpec == RangeInit /\ [][IncrementalNext]_vars
-----------------------------------------------------------------------------
(* SPAPIProcessor.process_orders: 30-day chunks, each given to               *)
(* BatchProcessor.process_orders, whose statistics are added up              *)

\* BatchProcessor(batch_size=100, rate_limit_pause=1.0, max_retries=3)
ProcessorBatchSize == 100
ProcessorMaxRetries == 3

\* timedelta(days=30)
ProcessorChunkDays == 30

innerVars == <<cfg, pc, chunkIdx, next_token, retry_count, orders_buffer, orders_response,
               total_stats, fetchLog, handed, chunkErrs>>

\* await self.batch_processor.process_orders(self.orders_api, self.staging_handler,
\* current_start, current_end): a new call with its own locals
CallProcessOrders(current_start, current_end) ==
    /\ cfg' = [ batch_size |-> ProcessorBatchSize, max_retries |-> ProcessorMaxRetries,
                mode |-> "APPEND", start_date |-> current_start, end_date |-> current_end ]
    /\ pc' = "start"
    /\ chunkIdx' = 0
    /\ next_token' = None
    /\ retry_count' = 0
    /\ orders_buffer' = << >>
    /\ orders_response' = None
    /\ total_stats' = NewStats("APPEND")
    /\ fetchLog' = << >>
    /\ handed' = << >>
    /\ chunkErrs' = << >>

\* while current_start < end_date: current_end = min(...); chunk_stats = await ...
\* and after the loop: return total_stats
ProcessorLoop(o) ==
    IF o.current_start < o.end_date
    THEN /\ outer' = [ o EXCEPT !.pc = "chunk",
                                !.current_end = Min(o.current_start + ProcessorChunkDays,
                                                    o.end_date),
                                \* history: the chunks the loop has made
                                !.chunks = Append(@,
                                    [ start |-> o.current_start,
                                      end |-> Min(o.current_start + ProcessorChunkDays,
                                                  o.end_date) ]) ]
         /\ CallProcessOrders(o.current_start,
                              Min(o.current_start + ProcessorChunkDays, o.end_date))
    ELSE /\ outer' = [ o EXCEPT !.pc = "done" ]
         /\ UNCHANGED innerVars

\* SPAPIProcessor.process_orders is called
ProcessorStart ==
    /\ outer.pc = "start"
    /\ ProcessorLoop([ outer EXCEPT !.total_stats = NewStats("APPEND"),
                                    !.current_start = outer.start_date ])
    /\ UNCHANGED <<env, rl, db, calls, workers, inv>>

\* the awaited process_orders call is over: its statistics are added up and
\* current_start = current_end; an exception of it is logged and re-raised
ProcessorChunkReturns ==
    /\ outer.pc = "chunk"
    /\ pc \in { "done", "raised" }
    /\ IF pc = "raised"
       THEN /\ outer' = [ outer EXCEPT !.pc = "raised" ]
            /\ UNCHANGED innerVars
       ELSE ProcessorLoop([ outer EXCEPT
              !.total_stats = [ @ EXCEPT
                  !.total_processed = @ + total_stats.total_processed,
                  !.total_batches = @ + total_stats.total_batches,
                  !.errors = @ + total_stats.errors,
                  !.batch_ids = @ \o total_stats.batch_ids ],
              \* history: the chunk_stats the calls have returned
              !.chunk_stats = Append(@, total_stats),
              !.current_start = outer.current_end ])
    /\ UNCHANGED <<env, rl, db, calls, workers, inv>>

\* end dates of the range, for a start date of day 0: no chunk, one, two
ProcessorEndDates == { 0, 5, 35 }

ProcessorCalled ==
    /\ outer \in [ pc : { "start" }, start_date : StartDates, end_date : ProcessorEndDates,
                   current_start : { 0 }, current_end : { 0 }, total_stats : { NewStats("APPEND") },
                   chunks : { << >> }, chunk_stats : { << >> } ]
    /\ cfg = [ batch_size |-> ProcessorBatchSize, max_retries |-> ProcessorMaxRetries,
               mode |-> "APPEND", start_date |-> 0, end_date |-> 0 ]
    /\ IdleProcessOrders
    /\ workers = [ w \in Workers |-> IdleWorker ]
    /\ rl = IdleLimiter
    /\ inv = IdleInv
    /\ db = EmptyDb
    /\ calls = << >>

ProcessorInit ==
    /\ env = FaultyRunEnv(OrdersOfKeyA, PagingMaxRecords, IncMaxPages, ProcessorMaxFailures, MaxFaults)
    /\ ProcessorCalled

ProcessorNext == ProcessorStart \/ ProcessorChunkReturns \/ Start \/ InvokeOk \/ InvokeFail

ProcessorSpec == ProcessorInit /\ [][ProcessorNext]_vars

\* the same calls over an upstream of one page a chunk: the statistics of the
\* chunks and their sums
StatsInit ==
    /\ env = FaultyRunEnv(OrdersOfKeyA, PagingMaxRecords, 1, ProcessorMaxFailures, 1)
    /\ ProcessorCalled

StatsSpec == StatsInit /\ [][ProcessorNext]_vars

-----------------------------------------------------------------------------
(* BatchProcessor.process_inventory: one try around the whole run; with a   *)
(* SKU list one fetch and one write per chunk of the list, without one the  *)
(* cursor loop and the buffer of process_orders                             *)

RECURSIVE chunk_list(_, _)
\* _chunk_list: items[i:i + chunk_size] for i in range(0, len(items), chunk_size)
chunk_list(items, chunk_size) ==
    IF items = << >> THEN << >>
    ELSE <<SubSeq(items, 1, Min(chunk_size, Len(items)))>>
            \o chunk_list(SubSeq(items, Min(chunk_size, Len(items)) + 1, Len(items)), chunk_size)

SkuChunks == chunk_list(inv.sku_list, cfg.batch_size)

\* the staging_handler method _process_inventory_batch calls: replace_data,
\* whatever the mode
InventoryWriteOp(mode) == "replace_data"

\* _process_inventory_batch(inventory, staging_handler, mode):
\* replace_data(inventory, 'Inventory', last_processed_date=datetime.now())
process_inventory_batch(d, inventory, mode, now, fault) ==
    LET out == StoreWrite(InventoryWriteOp(mode), d, inventory, "Inventory", Some(now), now,
                          fault)
    IN [ db |-> out.db, raised |-> out.raised, result |-> out.result,
         op |-> InventoryWriteOp(mode) ]

\* the locals of process_inventory that a batch write touches
InvLocals ==
    [ db |-> db, buffer |-> inv.inventory_buffer, stats |-> inv.total_stats,
      handed |-> inv.handed, raised |-> "none" ]

\* batch_id = await self._process_inventory_batch(batch, ...); total_stats[...] += ...
InvFlush(L, batch, rest, now, fault) ==
    IF L.raised # "none" THEN L
    ELSE LET r == process_inventory_batch(L.db, batch, inv.mode, now, fault)
             h == Append(L.handed, [ batch |-> batch, fault |-> fault, raised |-> r.raised,
                                     result |-> r.result, op |-> r.op ])
         IN IF r.raised # "none"
            THEN [ L EXCEPT !.db = r.db, !.handed = h, !.raised = r.raised ]
            ELSE [ L EXCEPT !.db = r.db, !.handed = h, !.buffer = rest,
                     !.stats = [ @ EXCEPT !.batch_ids = Append(@, r.result.batch_id),
                                          !.total_processed = @ + Len(batch),
                                          !.total_batches = @ + 1 ] ]

\* the steps at which the storage layer may fail in the next inventory write
InvWriteFaults(written, writes) ==
    IF ~writes \/ Cardinality({ i \in DOMAIN written : written[i].fault # "none" }) >= env.max_faults
    THEN { "none" }
    ELSE ReplaceFaults

\* process_inventory with an except clause that logs and raises again
InvFails_Reraises(v, stats, error) ==
    [ v EXCEPT !.total_stats = stats, !.pc = "raised" ]

\* except Exception as e: total_stats['errors'] += 1, and return total_stats
InvFails(v, stats, error) ==
    [ v EXCEPT !.total_stats = [ stats EXCEPT !.errors = @ + 1 ], !.pc = "done" ]

\* process_inventory is called
InvStart ==
    /\ inv.pc = "start"
    /\ inv' = [ inv EXCEPT !.total_stats = NewStats(inv.mode),
                           !.pc = IF inv.sku_list # << >> THEN "sku" ELSE "page",
                           !.chunk = 1, !.next_token = None, !.retry_count = 0,
                           !.inventory_buffer = << >> ]
    /\ UNCHANGED <<env, rl, db, calls, workers, outer>>
    /\ UNCHANGED innerVars

InvRecordsReturned == SumLen(inv.fetchLog)
InvFailuresSoFar == Cardinality({ i \in DOMAIN inv.fetchLog : inv.fetchLog[i].outcome # "ok" })
InvPagesReturned == Cardinality({ i \in DOMAIN inv.fetchLog : inv.fetchLog[i].outcome = "ok" })

InvLogEntry(outcome, items, token) ==
    [ chunk |-> inv.chunk, cursor |-> inv.next_token, outcome |-> outcome, orders |-> items,
      token |-> token ]

\* lines 188-197 for the inventory_data of one SKU chunk
InvHandleDetails(v, inventory_data, now) ==
    \E fault \in InvWriteFaults(inv.handed, TRUE) :
    \E L \in { InvFlush(InvLocals, inventory_data, << >>, now, fault) } :
       /\ db' = L.db
       /\ inv' = IF L.raised # "none"
                 THEN InvFails([ v EXCEPT !.handed = L.handed ], L.stats, L.raised)
                 ELSE [ v EXCEPT !.handed = L.handed, !.total_stats = L.stats,
                                 !.retry_count = 0, !.chunk = @ + 1,
                                 !.pc = IF inv.chunk + 1 > Len(SkuChunks) THEN "done" ELSE "sku" ]

\* lines 218-247 for one inventory_response
InvHandleSummary(v, response, now) ==
    \E f1 \in InvWriteFaults(inv.handed,
                             Len(inv.inventory_buffer \o response.inventory) >= cfg.batch_size) :
    \E L1 \in { IF Len(inv.inventory_buffer \o response.inventory) >= cfg.batch_size
                THEN InvFlush([ InvLocals EXCEPT !.buffer = inv.inventory_buffer \o response.inventory ],
                              SubSeq(inv.inventory_buffer \o response.inventory, 1, cfg.batch_size),
                              SubSeq(inv.inventory_buffer \o response.inventory,
                                     cfg.batch_size + 1,
                                     Len(inv.inventory_buffer \o response.inventory)),
                              now, f1)
                ELSE [ InvLocals EXCEPT !.buffer = inv.inventory_buffer \o response.inventory ] } :
    \E f2 \in InvWriteFaults(L1.handed, /\ CursorLoopEnds(response.NextToken)
                                        /\ L1.raised = "none" /\ L1.buffer # << >>) :
    \E L2 \in { IF CursorLoopEnds(response.NextToken) /\ L1.raised = "none" /\ L1.buffer # << >>
                THEN InvFlush(L1, L1.buffer, << >>, now, f2) ELSE L1 } :
       /\ db' = L2.db
       /\ inv' = IF L2.raised # "none"
                 THEN InvFails([ v EXCEPT !.handed = L2.handed ], L2.stats, L2.raised)
                 ELSE [ v EXCEPT !.handed = L2.handed, !.total_stats = L2.stats,
                                 !.inventory_buffer = L2.buffer, !.retry_count = 0,
                                 !.next_token = response.NextToken,
                                 !.pc = IF CursorLoopEnds(response.NextToken) THEN "done"
                                        ELSE "page" ]

\* one invocation of get_inventory_details / get_inventory_summary that
\* returns, and the statements up to the next invocation
InvInvokeOk ==
    /\ inv.pc \in { "sku", "page" }
    /\ MayInvoke(inv.retry_count, cfg.max_retries)
    /\ \E items \in SeqsUpTo(InventoryRecords, env.max_records - InvRecordsReturned),
          token \in IF inv.pc = "page" /\ InvPagesReturned + 1 < env.max_pages
                    THEN { None, Some(InvPagesReturned + 2) } ELSE { None },
          now \in Clock :
         LET v == [ inv EXCEPT !.fetchLog = Append(@, InvLogEntry("ok", items, token)),
                               !.inventory_response =
                                   Some([ inventory |-> items, NextToken |-> token ]) ]
         IN IF inv.pc = "sku"
            THEN InvHandleDetails(v, items, now)
            ELSE InvHandleSummary(v, [ inventory |-> items, NextToken |-> token ], now)
    /\ UNCHANGED <<env, rl, calls, workers, outer>>
    /\ UNCHANGED innerVars

\* one invocation that raises, and the except clause of the retry loop
InvInvokeFail ==
    /\ inv.pc \in { "sku", "page" }
    /\ MayInvoke(inv.retry_count, cfg.max_retries)
    /\ InvFailuresSoFar < env.max_failures
    /\ \E error \in FetchErrors :
         LET v == [ inv EXCEPT !.fetchLog = Append(@, InvLogEntry(error, << >>, None)) ]
         IN inv' = IF RetriesExhausted(inv.retry_count + 1, cfg.max_retries)
                   THEN InvFails(v, inv.total_stats, Reraise(error))
                   ELSE [ v EXCEPT !.retry_count = @ + 1 ]
    /\ UNCHANGED <<env, rl, db, calls, workers, outer>>
    /\ UNCHANGED innerVars

\* the retry loop ends on its condition, without an invocation: the next
\* statement reads inventory_data / inventory_response, unbound
InvLoopExit ==
    /\ inv.pc \in { "sku", "page" }
    /\ ~MayInvoke(inv.retry_count, cfg.max_retries)
    /\ inv.inventory_response = None
    /\ inv' = InvFails(inv, inv.total_stats, "UnboundLocalError")
    /\ UNCHANGED <<env, rl, db, calls, workers, outer>>
    /\ UNCHANGED innerVars

\* the sku_list argument: not given, one SKU, two SKUs
SkuLists == { << >>, <<"S1">>, <<"S1", "S2">> }

InventoryCalled ==
    /\ inv \in [ pc : { "start" }, sku_list : SkuLists, mode : Modes, chunk : { 0 },
                 next_token : { None }, retry_count : { 0 }, inventory_buffer : { << >> },
                 inventory_response : { None }, total_stats : { NewStats("REPLACE") },
                 fetchLog : { << >> }, handed : { << >> } ]
    /\ cfg \in [ batch_size : 1..MaxBatchSize, max_retries : 0..MaxRetries, mode : { "REPLACE" },
                 start_date : { 0 }, end_date : { 0 } ]
    /\ IdleProcessOrders
    /\ workers = [ w \in Workers |-> IdleWorker ]
    /\ rl = IdleLimiter
    /\ outer = IdleOuter
    /\ db = EmptyDb
    /\ calls = << >>

InventoryInit ==
    /\ env = FaultyRunEnv({}, FaultyMaxRecords, MaxPages, IncMaxFailures, MaxFaults)
    /\ InventoryCalled

InventoryNext == InvStart \/ InvInvokeOk \/ InvInvokeFail \/ InvLoopExit

InventorySpec == InventoryInit /\ [][InventoryNext]_vars

-----------------------------------------------------------------------------
(* LimiterSpec, SharedLimiterSpec: acquire calls on one RateLimiter *)

\* every variable but rl
pipelineVars == <<env, db, calls, cfg, pc, chunkIdx, next_token, retry_count, orders_buffer,
                  orders_response, total_stats, fetchLog, handed, chunkErrs, workers, outer,
                  inv>>

\* variant: the wait is the jitter alone
wait_time_JitterOnly(interval, elapsed, jitter) == jitter

\* wait_time = self.minimum_interval - elapsed; wait_time += random.uniform(0, 0.1)
wait_time(interval, elapsed, jitter) == (interval - elapsed) + jitter

\* variant: one last-call time, kept for every endpoint
RecordCall_OneClock(l, c, endpoint) ==
    [ l EXCEPT !.last_call_time = [ e \in Endpoints |-> l.now ],
               !.co[c] = IdleCoroutine,
               !.returns = Append(@, [ co |-> c, endpoint |-> endpoint, at |-> l.now,
                                       read |-> l.co[c].read,
                                       slept |-> l.co[c].pc = "sleeping" ]) ]

\* self.last_call_time[endpoint] = datetime.now(), and acquire returns
RecordCall(l, c, endpoint) ==
    [ l EXCEPT !.last_call_time = [ e \in DOMAIN @ \cup { endpoint } |->
                                      IF e = endpoint THEN l.now ELSE @[e] ],
               !.co[c] = IdleCoroutine,
               !.returns = Append(@, [ co |-> c, endpoint |-> endpoint, at |-> l.now,
                                       read |-> l.co[c].read,
                                       slept |-> l.co[c].pc = "sleeping" ]) ]

\* acquire calls made so far: those that returned and those that sleep
AcquiresMade ==
    Len(rl.returns) + Cardinality({ c \in DOMAIN rl.co : rl.co[c].pc = "sleeping" })

\* time passes
Tick ==
    /\ rl.now < MaxTime
    /\ rl' = [ rl EXCEPT !.now = @ + 1 ]
    /\ UNCHANGED pipelineVars

\* coroutine c calls acquire(endpoint) and runs up to asyncio.sleep, or to the
\* end when there is nothing to wait for
Acquire(c, endpoint) ==
    /\ rl.co[c].pc = "idle"
    /\ AcquiresMade < MaxAcquires
    /\ IF /\ endpoint \in DOMAIN rl.last_call_time
          /\ rl.now - rl.last_call_time[endpoint] < rl.minimum_interval
       THEN \E jitter \in 0..MaxJitter :
               rl' = [ rl EXCEPT !.co[c] =
                         [ pc |-> "sleeping", endpoint |-> endpoint,
                           read |-> Some(rl.last_call_time[endpoint]),
                           wake |-> rl.now + wait_time(rl.minimum_interval,
                                                       rl.now - rl.last_call_time[endpoint],
                                                       jitter) ] ]
       ELSE rl' = RecordCall([ rl EXCEPT !.co[c].read =
                                 IF endpoint \in DOMAIN rl.last_call_time
                                 THEN Some(rl.last_call_time[endpoint]) ELSE None ],
                             c, endpoint)
    /\ UNCHANGED pipelineVars

\* asyncio.sleep(wait_time) is over, not before wait_time has passed
Wake(c) ==
    /\ rl.co[c].pc = "sleeping"
    /\ rl.now >= rl.co[c].wake
    /\ rl' = RecordCall(rl, c, rl.co[c].endpoint)
    /\ UNCHANGED pipelineVars

\* the pipeline is not running
LimiterAlone ==
    /\ env = StoreEnv({}, 0, 0, 0)
    /\ db = EmptyDb
    /\ calls = << >>
    /\ cfg = [ batch_size |-> 1, max_retries |-> 1, mode |-> "APPEND",
               start_date |-> 0, end_date |-> 0 ]
    /\ IdleProcessOrders
    /\ workers = [ w \in Workers |-> IdleWorker ]
    /\ outer = IdleOuter
    /\ inv = IdleInv

\* one caller
LimiterInit ==
    /\ rl \in { NewLimiter(cps, 1) : cps \in CallsPerSecond }
    /\ LimiterAlone

\* several coroutines on one RateLimiter
SharedLimiterInit ==
    /\ rl \in { NewLimiter(cps, NumCoroutines) : cps \in CallsPerSecond }
    /\ LimiterAlone

\* some coroutine calls acquire
AcquireCalled == \E c \in DOMAIN rl.co, endpoint \in Endpoints : Acquire(c, endpoint)

\* some coroutine's sleep is over
SleepOver == \E c \in DOMAIN rl.co : Wake(c)

LimiterNext == Tick \/ AcquireCalled \/ SleepOver

LimiterSpec == LimiterInit /\ [][LimiterNext]_vars

SharedLimiterSpec == SharedLimiterInit /\ [][LimiterNext]_vars

-----------------------------------------------------------------------------
(* EntrySpec: one call of one of the three entry points, with upstream and  *)
(* storage failures; FairEntrySpec: the same, where the call keeps running  *)

EntryInit ==
    \/ /\ env = FaultyRunEnv(OrdersOfKeyA, EntryMaxRecords, IncMaxPages, ProcessorMaxFailures,
                             MaxFaults)
       /\ \/ RunInit /\ cfg.max_retries \in { 0, 1 }
          \/ InventoryCalled
          \/ ProcessorCalled /\ outer.end_date <= ProcessorChunkDays
    \* a range of two chunks, with an upstream that fails or returns its one
    \* page, without orders
    \/ /\ env = FaultyRunEnv({}, 0, 1, ProcessorMaxFailures, 0)
       /\ ProcessorCalled /\ outer.end_date > ProcessorChunkDays

EntryNext ==
    \/ Start \/ InvokeOk \/ InvokeFail \/ LoopExit
    \/ InvStart \/ InvInvokeOk \/ InvInvokeFail \/ InvLoopExit
    \/ ProcessorStart \/ ProcessorChunkReturns

EntrySpec == EntryInit /\ [][EntryNext]_vars

\* the event loop runs the one coroutine until it returns or raises
FairEntrySpec == EntrySpec /\ WF_vars(EntryNext)

-----------------------------------------------------------------------------
(* ChunkingSpec: the chunk loops of BatchProcessor.process_orders and of     *)
(* SPAPIProcessor.process_orders over ranges of any start and end, against   *)
(* an upstream that returns one page without orders for every chunk         *)

\* start dates and end dates of the range: before, at and after the start
ChunkingStartDates == { 0, 3 }
ChunkingEndDates == 0..MaxEndDate

ChunkingInit ==
    /\ env = FaultyRunEnv({}, 0, 1, 0, 0)
    /\ db = EmptyDb
    /\ calls = << >>
    /\ workers = [ w \in Workers |-> IdleWorker ]
    /\ rl = IdleLimiter
    /\ inv = IdleInv
    /\ chunkIdx = 0
    /\ next_token = None
    /\ retry_count = 0
    /\ orders_buffer = << >>
    /\ orders_response = None
    /\ total_stats = NewStats("APPEND")
    /\ fetchLog = << >>
    /\ handed = << >>
    /\ chunkErrs = << >>
    \* SPAPIProcessor.process_orders(start_date, end_date) is called
    /\ \/ /\ outer \in [ pc : { "start" }, start_date : ChunkingStartDates,
                         end_date : ChunkingEndDates, current_start : { 0 },
                         current_end : { 0 }, total_stats : { NewStats("APPEND") },
                         chunks : { << >> }, chunk_stats : { << >> } ]
          /\ pc = "idle"
          /\ cfg = [ batch_size |-> ProcessorBatchSize, max_retries |-> ProcessorMaxRetries,
                     mode |-> "APPEND", start_date |-> 0, end_date |-> 0 ]
       \* BatchProcessor.process_orders(start_date, end_date) is called
       \/ /\ outer = IdleOuter
          /\ pc = "start"
          /\ cfg \in [ batch_size : { 1 }, max_retries : { 1 }, mode : { "APPEND" },
                       start_date : ChunkingStartDates, end_date : ChunkingEndDates ]

ChunkingNext == ProcessorStart \/ ProcessorChunkReturns \/ Start \/ InvokeOk

ChunkingSpec == ChunkingInit /\ [][ChunkingNext]_vars

\* the loops keep running: nothing in them waits for anything but the upstream
FairChunkingSpec == ChunkingSpec /\ WF_vars(ChunkingNext)


-----------------------------------------------------------------------------
(* Properties of the store calls (StoreSpec) *)

\* the database as the i-th call left it
PostDb(i) == IF i = Len(calls) THEN db ELSE calls[i + 1].pre

Returned(c) == c.raised = "none"

\* the staging rows of a table that carry a batch id
RowsOfBatch(d, table_name, batch_id) ==
    { i \in DOMAIN d.staging[table_name] : d.staging[table_name][i].BatchId = batch_id }

\* C1: for Orders and for Inventory, when append_data is called twice in
\* sequence with the same batch and nothing written in between (and the
\* storage layer is up), the second call inserts no staging row and returns
\* records_processed = 0 and duplicates_skipped = len(batch).
C1_SecondAppendIsNoOp ==
    \A i \in DOMAIN calls :
        ( /\ i > 1
          /\ calls[i].op = "append_data" /\ calls[i - 1].op = "append_data"
          /\ calls[i].table = calls[i - 1].table
          /\ calls[i].data = calls[i - 1].data
          /\ calls[i].fault = "none" /\ calls[i - 1].fault = "none" )
        => /\ PostDb(i).staging[calls[i].table] = calls[i].pre.staging[calls[i].table]
           /\ Returned(calls[i])
           /\ calls[i].result.records_processed = 0
           /\ calls[i].result.duplicates_skipped = Len(calls[i].data)

\* C2: a business key that occurs more than once inside one batch is inserted
\* once by append_data, the later occurrences being counted in
\* duplicates_skipped: the call inserts one row per distinct new key.
C2_InBatchDuplicatesInsertedOnce ==
    \A i \in DOMAIN calls :
        (calls[i].op = "append_data" /\ Returned(calls[i]))
        => LET c == calls[i]
               existing == existing_keys_set(c.pre, c.table)
               newKeys == { Get(c.data[j], dedup_key(c.table)) : j \in DOMAIN c.data } \ existing
           IN /\ Cardinality(RowsOfBatch(PostDb(i), c.table, c.result.batch_id))
                    = Cardinality(newKeys)
              /\ c.result.records_processed = Cardinality(newKeys)
              /\ c.result.duplicates_skipped = Len(c.data) - Cardinality(newKeys)

\* C10: after replace_data(data, table) returns, the staging rows of the table
\* are exactly the records of data, in order, each tagged with the returned
\* batch id and PENDING, and no row that was in staging before remains.
C10_ReplaceLeavesExactlyData ==
    \A i \in DOMAIN calls :
        (calls[i].op = "replace_data" /\ Returned(calls[i]))
        => LET c == calls[i]
               rows == PostDb(i).staging[c.table]
               oldIds == { c.pre.staging[c.table][j].StagingId : j \in DOMAIN c.pre.staging[c.table] }
           IN /\ Len(rows) = Len(c.data)
              /\ c.result.records_processed = Len(c.data)
              /\ \A j \in DOMAIN rows :
                    /\ rows[j].RawData = json_dumps(c.data[j])
                    /\ rows[j].AmazonOrderId = Get(c.data[j], "AmazonOrderId")
                    /\ rows[j].BatchId = c.result.batch_id
                    /\ rows[j].ValidationStatus = "PENDING"
                    /\ rows[j].StagingId \notin oldIds

\* C10 witness: a replace_data that returned, with records to insert, on a
\* table that held rows of an earlier batch
C10_Witness ==
    \E i \in DOMAIN calls :
        /\ calls[i].op = "replace_data" /\ Returned(calls[i])
        /\ calls[i].data # << >>
        /\ calls[i].pre.staging[calls[i].table] # << >>

\* identity, payload and batch id of the staging rows and of the archive rows
StagingIdents(d, table_name) ==
    { [ id |-> d.staging[table_name][j].StagingId, RawData |-> d.staging[table_name][j].RawData,
        BatchId |-> d.staging[table_name][j].BatchId ] : j \in DOMAIN d.staging[table_name] }

ArchiveIdents(d, table_name) ==
    { [ id |-> d.archive[table_name][j].OriginalId, RawData |-> d.archive[table_name][j].RawData,
        BatchId |-> d.archive[table_name][j].BatchId ] : j \in DOMAIN d.archive[table_name] }

\* C11: over any sequence of append_data and replace_data calls, failing ones
\* included, every record inserted into staging is in exactly one of staging
\* and archive, with its identity, payload and batch id; a replace_data that
\* returns appends to the archive exactly the rows staging held before the call.
C11_StagedRecordsConserved ==
    \A i \in DOMAIN calls : \A t \in Tables :
        LET pre == calls[i].pre
            post == PostDb(i)
        IN /\ (StagingIdents(pre, t) \cup ArchiveIdents(pre, t))
                 \subseteq (StagingIdents(post, t) \cup ArchiveIdents(post, t))
           /\ { r.id : r \in StagingIdents(post, t) } \cap { r.id : r \in ArchiveIdents(post, t) } = {}
           /\ Cardinality({ r.id : r \in StagingIdents(post, t) }) = Len(post.staging[t])
           /\ Cardinality({ r.id : r \in ArchiveIdents(post, t) }) = Len(post.archive[t])
           /\ (calls[i].op = "replace_data" /\ calls[i].table = t /\ Returned(calls[i]))
                 => post.archive[t] = pre.archive[t] \o
                       [ j \in 1..Len(pre.staging[t]) |->
                           [ OriginalId |-> pre.staging[t][j].StagingId,
                             AmazonOrderId |-> pre.staging[t][j].AmazonOrderId,
                             RawData |-> pre.staging[t][j].RawData,
                             BatchId |-> pre.staging[t][j].BatchId ] ]

\* C11 witness: a replace_data that archived the rows of an earlier batch and
\* then raised before inserting its own
C11_Witness ==
    \E i \in DOMAIN calls :
        /\ calls[i].op = "replace_data" /\ calls[i].fault = "insert"
        /\ calls[i].pre.staging[calls[i].table] # << >>
        /\ Len(PostDb(i).archive[calls[i].table]) > Len(calls[i].pre.archive[calls[i].table])

\* what the call would have left had no step of it failed
SuccessOf(c) ==
    IF c.op = "append_data"
    THEN append_data(c.pre, c.data, c.table, None, 9, "none")
    ELSE replace_data(c.pre, c.data, c.table, None, 9, "none")

\* C12: when append_data or replace_data raises, the staging content of the
\* table is what it was before the call or what the call would have left had it
\* succeeded, never a state in between.
C12_FailureLeavesPreOrPostState ==
    \A i \in DOMAIN calls :
        ~Returned(calls[i])
        => LET c == calls[i]
           IN \/ PostDb(i).staging[c.table] = c.pre.staging[c.table]
              \/ /\ Returned(SuccessOf(c))
                 /\ PostDb(i).staging[c.table] = SuccessOf(c).db.staging[c.table]

\* the control entries the i-th call wrote: those that carry its batch id
ControlEntriesOf(i) ==
    { k \in DOMAIN PostDb(i).control : PostDb(i).control[k].LastBatchId = calls[i].pre.nextBatch }

\* C13: when append_data or replace_data fails at any step, the control entry
\* of the call is ERROR with RecordsProcessed = 0 when the exception reaches
\* the caller, and that exception is the original failure.
C13_FailureMarksEntryError ==
    \A i \in DOMAIN calls :
        ~Returned(calls[i])
        => /\ calls[i].raised = "SQLError"
           /\ ControlEntriesOf(i) # {}
           /\ \A k \in ControlEntriesOf(i) :
                 /\ PostDb(i).control[k].Status = "ERROR"
                 /\ PostDb(i).control[k].RecordsProcessed = Some(0)

\* C15: get_last_processed_date(data_type) is the LastProcessedDate of the
\* SUCCESS entry of that data type written last, absent when there is none.
C15_CheckpointIsLastWrittenSuccess ==
    \A t \in Tables :
        LET S == { k \in DOMAIN db.control :
                     db.control[k].DataType = t /\ db.control[k].Status = "SUCCESS" }
        IN get_last_processed_date(db, t) =
              IF S = {} THEN None
              ELSE db.control[CHOOSE k \in S : \A m \in S : m <= k].LastProcessedDate

-----------------------------------------------------------------------------
(* Properties of the checkpoint (IncrementalSpec, ResumeSpec) *)

\* the control entries the batches of the run wrote
EntriesOfRun ==
    { k \in DOMAIN db.control :
        \E i \in DOMAIN total_stats.batch_ids : db.control[k].LastBatchId = total_stats.batch_ids[i] }

\* C16: for a process_orders_incremental run that completes with errors = 0,
\* every SUCCESS entry the run wrote has a LastProcessedDate at or after the
\* checkpoint the run read at its start, whatever temporal keys the records
\* the upstream returned carry.
C16_RunEntriesNotBeforeCheckpoint ==
    (pc = "done" /\ total_stats.errors = 0 /\ cfg.checkpoint # None)
    => \A k \in EntriesOfRun :
          db.control[k].Status = "SUCCESS"
          => db.control[k].LastProcessedDate[1] >= cfg.checkpoint[1]

\* C17: the value get_last_processed_date('Orders') would return never
\* decreases from one state of a run to the next, also when a later batch
\* carries only older temporal keys than an earlier one.
C17_CheckpointNeverDecreases ==
    [][ get_last_processed_date(db, "Orders") # None
        => /\ get_last_processed_date(db', "Orders") # None
           /\ get_last_processed_date(db', "Orders")[1] >= get_last_processed_date(db, "Orders")[1]
      ]_vars

\* C17 witness: two batches of one run, the later one with an older date
C17_Witness ==
    \E k1, k2 \in SuccessEntries(db, "Orders") \cap EntriesOfRun :
        /\ k1 < k2
        /\ db.control[k2].LastProcessedDate[1] < db.control[k1].LastProcessedDate[1]

InProgress(data_type) ==
    { k \in DOMAIN db.control :
        db.control[k].DataType = data_type /\ db.control[k].Status = "IN_PROGRESS" }

\* C14: in every reachable state, two runs for one DataType started at the same
\* time included, at most one ProcessingControl entry of that DataType is
\* IN_PROGRESS.
C14_AtMostOneInProgress ==
    \A t \in Tables : Cardinality(InProgress(t)) <= 1


-----------------------------------------------------------------------------
(* Properties of a process_orders run (Spec) *)

\* the invocations of get_orders made for chunk c, in order
ChunkEntries(c) == SelectSeq(fetchLog, LAMBDA e : e.chunk = c)

\* the failed invocations at the end of a sequence of invocations: those made
\* for the page in progress since its predecessor was returned
RECURSIVE TrailingFailures(_)
TrailingFailures(entries) ==
    IF entries = << >> \/ entries[Len(entries)].outcome = "ok" THEN << >>
    ELSE Append(TrailingFailures(SubSeq(entries, 1, Len(entries) - 1)), entries[Len(entries)])

ChunkOver(c) == c \in 1..Len(Chunks) /\ (c < chunkIdx \/ pc = "done")
ChunkFailed(c) == \E i \in DOMAIN chunkErrs : chunkErrs[i].chunk = c

\* C3: in APPEND mode the total_processed of the returned statistics is the
\* number of records inserted into staging during the run, the duplicates
\* skipped by append_data not being counted.
C3_TotalProcessedCountsInserted ==
    (pc = "done" /\ cfg.mode = "APPEND")
    => total_stats.total_processed = Len(db.staging["Orders"])

\* C4: every batch handed to the staging store has at most batch_size records.
C4_BatchAtMostBatchSize ==
    \A i \in DOMAIN handed : Len(handed[i].batch) <= cfg.batch_size

\* C5: over a whole run, every batch handed to the staging store but the last
\* one of the run has exactly batch_size records, and the last one has between 1
\* and batch_size records.
C5_OnlyLastBatchOfRunUndersized ==
    pc = "done"
    => \A i \in DOMAIN handed :
          IF i < Len(handed)
          THEN Len(handed[i].batch) = cfg.batch_size
          ELSE Len(handed[i].batch) \in 1..cfg.batch_size

\* C6: a fetch that fails on its first max_retries invocations is invoked once
\* more (and its result used when that invocation succeeds): the retry loop
\* gives a page up, and the chunk is counted as an error, only after more than
\* max_retries failed invocations. Stated for max_retries >= 1.
C6_PageGivenUpOnlyAfterMoreThanMaxRetries ==
    \A i \in DOMAIN chunkErrs :
        (cfg.max_retries >= 1 /\ chunkErrs[i].error \in FetchErrors)
        => Len(TrailingFailures(ChunkEntries(chunkErrs[i].chunk))) >= cfg.max_retries + 1

\* C7: when every invocation of a page fetch fails, the fetch is invoked at most
\* max_retries times, the exception of the last invocation is the one the chunk
\* catches, and the fetch is not invoked again for that page.
C7_ExhaustedRetriesRaiseLastError ==
    \A c \in 1..Len(Chunks) :
        LET failures == TrailingFailures(ChunkEntries(c))
        IN failures # << >>
           => /\ Len(failures) <= cfg.max_retries
              /\ IF ChunkOver(c)
                 THEN \E i \in DOMAIN chunkErrs :
                         /\ chunkErrs[i].chunk = c
                         /\ chunkErrs[i].error = failures[Len(failures)].outcome
                 ELSE /\ c = chunkIdx
                      /\ Len(failures) = retry_count
                      /\ ~ChunkFailed(c)

\* C7 witness: a page given up after two failed invocations of different kinds
C7_Witness ==
    \E i \in DOMAIN chunkErrs :
        LET failures == TrailingFailures(ChunkEntries(chunkErrs[i].chunk))
        IN /\ Len(failures) = 2
           /\ failures[1].outcome # failures[2].outcome
           /\ chunkErrs[i].error = failures[2].outcome

\* C8: a fetch that fails with a permanent error is not retried: no further
\* invocation is made for the chunk and the chunk catches that error.
C8_PermanentErrorNotRetried ==
    \A c \in 1..Len(Chunks) :
        LET entries == ChunkEntries(c)
        IN \A k \in DOMAIN entries :
              entries[k].outcome \in PermanentErrors
              => /\ k = Len(entries)
                 /\ \E i \in DOMAIN chunkErrs :
                       chunkErrs[i].chunk = c /\ chunkErrs[i].error = entries[k].outcome

\* C9: when the upstream returns N pages for a chunk, the first N - 1 with a
\* cursor and the N-th without, and nothing fails, the cursor loop issues N
\* fetches, the first with no cursor and each next one with the cursor the
\* previous one returned, and then stops.
C9_CursorLoopFollowsCursor ==
    \A c \in 1..Len(Chunks) :
        LET entries == ChunkEntries(c)
            failureFree == /\ ~ChunkFailed(c)
                           /\ \A k \in DOMAIN entries : entries[k].outcome = "ok"
        IN failureFree
           => /\ \A k \in DOMAIN entries :
                    /\ entries[k].cursor = IF k = 1 THEN None ELSE entries[k - 1].token
                    /\ (k < Len(entries) => entries[k].token # None)
              /\ ChunkOver(c) => (entries # << >> /\ entries[Len(entries)].token = None)
              /\ (c = chunkIdx /\ pc = "run")
                    => (\A k \in DOMAIN entries : entries[k].token # None)

\* C9 witness: a chunk of two pages fetched to its end with no failure
C9_Witness ==
    \E c \in 1..Len(Chunks) :
        /\ ChunkOver(c) /\ ~ChunkFailed(c)
        /\ Len(ChunkEntries(c)) = 2
        /\ \A k \in 1..2 : ChunkEntries(c)[k].outcome = "ok"

-----------------------------------------------------------------------------
(* Properties of a run whose chunks may fail (FaultySpec) *)

RECURSIVE Concat(_)
Concat(seqs) == IF seqs = << >> THEN << >> ELSE Head(seqs) \o Concat(Tail(seqs))

\* the records of the pages fetched for chunk c, in fetch order
FetchedOf(c) == Concat([ k \in DOMAIN ChunkEntries(c) |-> ChunkEntries(c)[k].orders ])

\* the batches handed to the staging store for chunk c, in order
HandedFor(c) == SelectSeq(handed, LAMBDA h : h.chunk = c)

\* the records of those batches whose write returned
WrittenOf(c) ==
    Concat([ k \in DOMAIN HandedFor(c) |->
               IF HandedFor(c)[k].raised = "none" THEN HandedFor(c)[k].batch ELSE << >> ])

\* C18: when a date chunk of process_orders fails, on a fetch that used up its
\* retries or on a staging write that raised, errors is incremented by exactly
\* one for that chunk, and every later chunk of the range is still fetched and
\* its records written. (With max_retries = 0 the retry loop fetches for no
\* chunk at all.)
C18_FailedChunkCountedOnceRunGoesOn ==
    /\ total_stats.errors = Len(chunkErrs)
    /\ \A i, j \in DOMAIN chunkErrs : chunkErrs[i].chunk = chunkErrs[j].chunk => i = j
    /\ \A i \in DOMAIN chunkErrs : ChunkOver(chunkErrs[i].chunk)
    /\ pc = "done"
       => \A c \in 1..Len(Chunks) :
             /\ cfg.max_retries >= 1 => ChunkEntries(c) # << >>
             /\ ~ChunkFailed(c) => WrittenOf(c) = FetchedOf(c)

\* C18 witness: the first chunk failed on a staging write that raised, the
\* second was fetched and its record written
C18_Witness ==
    /\ pc = "done"
    /\ Len(Chunks) = 2
    /\ \E i \in DOMAIN chunkErrs : chunkErrs[i].chunk = 1 /\ chunkErrs[i].error = "SQLError"
    /\ ~ChunkFailed(2)
    /\ WrittenOf(2) # << >>

\* the rows, in staging or moved to the archive, that a batch write inserted
RowsInsertedBy(h) ==
    { r \in StagingIdents(db, "Orders") \cup ArchiveIdents(db, "Orders") :
        /\ r.BatchId = h.result.batch_id
        /\ \E k \in DOMAIN h.batch : r.RawData = json_dumps(h.batch[k]) }

\* the records of a batch that the write counted as duplicates
SkippedBy(h) == IF cfg.mode = "APPEND" THEN h.result.duplicates_skipped ELSE 0

\* the records that the writes of a sequence of batches inserted or skipped
RECURSIVE AccountedIn(_)
AccountedIn(written) ==
    IF written = << >> THEN 0
    ELSE Cardinality(RowsInsertedBy(Head(written))) + SkippedBy(Head(written))
            + AccountedIn(Tail(written))

\* C20: every record fetched in a process_orders run is accounted for: its
\* chunk failed and was counted in errors, or it was handed to the staging
\* store in a batch that inserted it or counted it in duplicates_skipped; a
\* run that returns errors = 0 has lost no fetched record.
C20_FetchedRecordsAccountedFor ==
    /\ \A c \in 1..Len(Chunks) :
          ChunkOver(c)
          => \/ ChunkFailed(c) /\ total_stats.errors >= 1
             \/ /\ WrittenOf(c) = FetchedOf(c)
                /\ \A k \in DOMAIN HandedFor(c) :
                      Len(HandedFor(c)[k].batch)
                         = Cardinality(RowsInsertedBy(HandedFor(c)[k])) + SkippedBy(HandedFor(c)[k])
    /\ (pc = "done" /\ total_stats.errors = 0)
          => RecordsReturned = AccountedIn(handed)

\* C20 witness: a run that returned errors = 0 after one batch was inserted
\* and the record of another was skipped as a duplicate
C20_Witness ==
    /\ pc = "done" /\ total_stats.errors = 0 /\ cfg.mode = "APPEND"
    /\ \E i, j \in DOMAIN handed :
          /\ handed[i].result.records_processed = 1
          /\ handed[j].result.duplicates_skipped = 1


-----------------------------------------------------------------------------
(* Properties of the entry points (FairEntrySpec) *)

StatsKeys == { "total_processed", "total_batches", "errors", "batch_ids", "mode" }

\* the call that was made has raised to its caller
EntryRaised ==
    IF outer.pc # "idle" THEN outer.pc = "raised"
    ELSE IF inv.pc # "idle" THEN inv.pc = "raised"
    ELSE pc = "raised"

\* the call that was made has returned its total_stats
EntryReturned ==
    IF outer.pc # "idle" THEN outer.pc = "done" /\ DOMAIN outer.total_stats = StatsKeys
    ELSE IF inv.pc # "idle" THEN inv.pc = "done" /\ DOMAIN inv.total_stats = StatsKeys
    ELSE pc = "done" /\ DOMAIN total_stats = StatsKeys

\* C19: whatever the upstream and the staging store do, a call of
\* BatchProcessor.process_orders, of BatchProcessor.process_inventory or of
\* SPAPIProcessor.process_orders never raises to its caller and ends by
\* returning a mapping with the keys total_processed, total_batches, errors,
\* batch_ids and mode (the upstream cursor being finite)
C19_EntryPointsReturnStats == [](~EntryRaised) /\ <>EntryReturned

\* C19: a call of SPAPIProcessor.process_orders has returned after a chunk
\* of it failed
C19_Witness ==
    /\ outer.pc = "done"
    /\ outer.total_stats.errors >= 1
    /\ DOMAIN outer.total_stats = StatsKeys


-----------------------------------------------------------------------------
(* Properties of the RateLimiter (LimiterSpec, SharedLimiterSpec) *)

\* returns i and j of acquire are for the same key, with no return for that
\* key between them
ConsecutiveReturns(i, j) ==
    /\ i < j
    /\ rl.returns[i].endpoint = rl.returns[j].endpoint
    /\ \A k \in DOMAIN rl.returns :
          i < k /\ k < j => rl.returns[k].endpoint # rl.returns[i].endpoint

\* any two consecutive returns for a key are minimum_interval apart
ReturnsSpaced ==
    \A i, j \in DOMAIN rl.returns :
       ConsecutiveReturns(i, j) => rl.returns[j].at - rl.returns[i].at >= rl.minimum_interval

\* the index of the last return for a key, 0 when there is none
LastReturn(endpoint) ==
    MaxOf({ 0 } \cup { i \in DOMAIN rl.returns : rl.returns[i].endpoint = endpoint })

\* C21: with a single caller, two consecutive returns of acquire for a key
\* are at least minimum_interval = 1/calls_per_second apart, and the
\* last-call time of a key is the time of the last return for it
C21_SuccessiveReturnsSpaced ==
    /\ ReturnsSpaced
    /\ \A e \in Endpoints :
          IF LastReturn(e) = 0 THEN e \notin DOMAIN rl.last_call_time
          ELSE /\ e \in DOMAIN rl.last_call_time
               /\ rl.last_call_time[e] = rl.returns[LastReturn(e)].at

\* C21: a second acquire for a key came before the interval was over, slept
\* and returned
C21_Witness ==
    \E i, j \in DOMAIN rl.returns :
       /\ ConsecutiveReturns(i, j)
       /\ rl.returns[j].slept
       /\ rl.minimum_interval > 1


\* C27: with two coroutines in acquire for the same key at once, the returns
\* for the key are still minimum_interval apart, and no two of them slept on
\* the same last-call time
C27_ConcurrentReturnsSpaced ==
    /\ ReturnsSpaced
    /\ \A i, j \in DOMAIN rl.returns :
          /\ ConsecutiveReturns(i, j)
          /\ rl.returns[i].slept /\ rl.returns[j].slept
          => rl.returns[i].read # rl.returns[j].read


-----------------------------------------------------------------------------
(* Properties of process_orders_incremental (RangeSpec, IncrementalSpec) *)

\* C22: process_orders_incremental starts the run at the checkpoint
\* get_last_processed_date('Orders') returns, or 30 days before now when
\* there is none, ends it at end_date, or now when none is given, and runs
\* in APPEND mode
C22_IncrementalRunRange ==
    /\ [][ pc = "start_incremental" =>
             \E now \in Clock :
                /\ cfg'.start_date =
                      IF SuccessEntries(db, "Orders") # { }
                      THEN get_last_processed_date(db, "Orders")[1]
                      ELSE now - 30
                /\ cfg'.end_date =
                      IF cfg.end_date_arg # None THEN cfg.end_date_arg[1] ELSE now
                /\ cfg'.mode = "APPEND"
                /\ total_stats'.mode = "APPEND" ]_vars
    /\ [](pc # "start_incremental" => cfg.mode = "APPEND" /\ total_stats.mode = "APPEND")

\* C22: an incremental run that started at an existing checkpoint has
\* written a batch
C22_Witness ==
    /\ pc = "done"
    /\ cfg.checkpoint # None
    /\ cfg.start_date = cfg.checkpoint[1]
    /\ cfg.end_date = 12
    /\ total_stats.total_batches >= 1


-----------------------------------------------------------------------------
(* Properties of process_inventory (InventorySpec) *)

\* the records the upstream returned in the run, in order
InvFetched == Concat([ i \in DOMAIN inv.fetchLog |-> inv.fetchLog[i].orders ])

\* no invocation of the upstream failed and the storage layer was never made to fail
InvUndisturbed ==
    /\ \A i \in DOMAIN inv.fetchLog : inv.fetchLog[i].outcome = "ok"
    /\ \A i \in DOMAIN inv.handed : inv.handed[i].fault = "none"

ReplaceRunKeepsEveryBatch ==
    /\ pc = "done"
    /\ cfg.mode = "REPLACE"
    /\ total_stats.errors = 0
    /\ total_stats.total_batches >= 2
    => Len(db.staging["Orders"]) = total_stats.total_processed


\* the SKU chunks for which the upstream was invoked
SkuChunksFetched == { inv.fetchLog[i].chunk : i \in DOMAIN inv.fetchLog }

\* C24: in a process_inventory run over a SKU list, a chunk whose fetch or
\* write fails adds to errors and the chunks after it are still fetched: at
\* the end of the run every chunk of the list was fetched
C24_SkuRunGoesOnAfterFailedChunk ==
    /\ inv.pc = "done"
    /\ inv.sku_list # << >>
    /\ cfg.max_retries >= 1
    => /\ SkuChunksFetched = DOMAIN SkuChunks
       /\ (\E i \in DOMAIN inv.handed : inv.handed[i].raised # "none")
             => inv.total_stats.errors >= 1


-----------------------------------------------------------------------------
(* Properties of the write protocol of a run (EntrySpec) *)

\* the write protocol a mode names
ProtocolOf(mode) == IF mode = "APPEND" THEN "append_data" ELSE "replace_data"

\* C25: every batch of a run is written with the protocol of the run's mode,
\* append_data for APPEND and replace_data for REPLACE, in process_orders and
\* in process_inventory, and the mode of the statistics is that mode
C25_ModeSelectsWriteProtocol ==
    /\ pc \in { "run", "done" } =>
          /\ total_stats.mode = cfg.mode
          /\ \A i \in DOMAIN handed : handed[i].op = ProtocolOf(total_stats.mode)
    /\ inv.pc \in { "sku", "page", "done" } =>
          /\ inv.total_stats.mode = inv.mode
          /\ \A i \in DOMAIN inv.handed : inv.handed[i].op = ProtocolOf(inv.total_stats.mode)


-----------------------------------------------------------------------------
(* Properties of the checkpoint after a failed chunk (IncrementalSpec) *)

\* the upstream returned, for each chunk, orders created in the chunk's range
UpstreamInRange ==
    \A c \in 1..Len(Chunks) :
       \A i \in DOMAIN FetchedOf(c) :
          /\ "PurchaseDate" \in DOMAIN FetchedOf(c)[i]
          /\ Chunks[c].start <= fromisoformat(FetchedOf(c)[i].PurchaseDate)
          /\ fromisoformat(FetchedOf(c)[i].PurchaseDate) <= Chunks[c].end

\* the failed chunks of the run
FailedChunks == { c \in 1..Len(Chunks) : ChunkFailed(c) }

\* C26: after a process_orders_incremental run in which a date chunk failed,
\* the checkpoint get_last_processed_date('Orders') returns is not later
\* than the start of the earliest failed chunk
C26_CheckpointNotPastFailedChunk ==
    /\ pc = "done"
    /\ FailedChunks # { }
    /\ UpstreamInRange
    => \/ get_last_processed_date(db, "Orders") = None
       \/ \A c \in FailedChunks : get_last_processed_date(db, "Orders")[1] <= Chunks[c].start


-----------------------------------------------------------------------------
(* Properties of concurrent append_data calls (RaceSpec) *)

\* the business keys of the records a call is inserting or has inserted
KeysInserting(w) ==
    { Get(workers[w].new_data[i], dedup_key(workers[w].table)) :
        i \in DOMAIN workers[w].new_data }

\* the rows with a business key that a batch has put into the table, in
\* staging or since moved to the archive
RowsOfKey(table_name, key, batch_id) ==
    { r \in { db.staging[table_name][i] : i \in DOMAIN db.staging[table_name] }
            \cup { db.archive[table_name][i] : i \in DOMAIN db.archive[table_name] } :
        r.AmazonOrderId = key /\ r.BatchId = batch_id }

\* two append_data calls on a table that both hold a key in their new_data,
\* the key having been absent from the snapshot each of them read, and that
\* have both run their insert loop
BothInserted(w1, w2, key) ==
    /\ w1 # w2
    /\ workers[w1].op = "append_data" /\ workers[w2].op = "append_data"
    /\ workers[w1].table = workers[w2].table
    /\ workers[w1].pc \in { "inserted", "returned" }
    /\ workers[w2].pc \in { "inserted", "returned" }
    /\ key \in KeysInserting(w1) \cap KeysInserting(w2)

\* C28: when two append_data calls on a table have each read a key snapshot
\* without the key of a record they carry, both insert their record: the
\* table gets a row with that key from each of the two batches
C28_ConcurrentAppendsBothInsert ==
    \A w1, w2 \in Workers : \A key \in KeysInserting(w1) :
       BothInserted(w1, w2, key)
       => /\ RowsOfKey(workers[w1].table, key, workers[w1].batch_id) # { }
          /\ RowsOfKey(workers[w1].table, key, workers[w2].batch_id) # { }

\* C28: two concurrent append_data calls have left two staging rows with the
\* same business key
C28_Witness ==
    \E w1, w2 \in Workers : \E key \in KeysInserting(w1) :
       /\ BothInserted(w1, w2, key)
       /\ \E i, j \in DOMAIN db.staging[workers[w1].table] :
             /\ i # j
             /\ db.staging[workers[w1].table][i].AmazonOrderId = key
             /\ db.staging[workers[w1].table][j].AmazonOrderId = key
             /\ db.staging[workers[w1].table][i].BatchId = workers[w1].batch_id
             /\ db.staging[workers[w1].table][j].BatchId = workers[w2].batch_id

-----------------------------------------------------------------------------
(* Properties of one append_data call (PartitionSpec) *)

\* the business keys the staging rows of a table hold
KeysPresent(d, table_name) ==
    { Get(row, dedup_key(table_name)) :
        row \in { d.staging[table_name][i] : i \in DOMAIN d.staging[table_name] } }

\* the positions of the batch whose key is not among the keys read
KeptPositions(data, table_name, keys) ==
    { k \in DOMAIN data : Get(data[k], dedup_key(table_name)) \notin keys }

\* the j-th of a set of positions, in batch order
NthPosition(S, j) == CHOOSE k \in S : Cardinality({ m \in S : m <= k }) = j

\* the staging rows of a table that a call added behind those it found
RowsAdded(pre, post, table_name) ==
    SubSeq(post.staging[table_name], Len(pre.staging[table_name]) + 1,
           Len(post.staging[table_name]))

\* C29: append_data partitions the incoming batch against the set of business
\* keys present in staging when the call reads it: exactly the records whose
\* key is not in that set are inserted, in batch order, tagged with the call's
\* batch id and ValidationStatus PENDING; records_processed +
\* duplicates_skipped = len(batch); the rows already in staging and all
\* archive rows are left unchanged.
C29_AppendPartitionsBatch ==
    \A i \in DOMAIN calls :
        ( calls[i].op = "append_data" /\ Returned(calls[i]) )
        => LET c == calls[i]
               t == c.table
               kept == KeptPositions(c.data, t, KeysPresent(c.pre, t))
               added == RowsAdded(c.pre, PostDb(i), t)
           IN /\ Len(PostDb(i).staging[t]) >= Len(c.pre.staging[t])
              /\ SubSeq(PostDb(i).staging[t], 1, Len(c.pre.staging[t])) = c.pre.staging[t]
              /\ \A u \in Tables \ { t } : PostDb(i).staging[u] = c.pre.staging[u]
              /\ PostDb(i).archive = c.pre.archive
              /\ Len(added) = Cardinality(kept)
              /\ \A j \in DOMAIN added :
                    LET record == c.data[NthPosition(kept, j)]
                    IN /\ added[j].RawData = json_dumps(record)
                       /\ added[j].AmazonOrderId = Get(record, dedup_key(t))
                       /\ added[j].BatchId = c.result.batch_id
                       /\ added[j].ValidationStatus = "PENDING"
              /\ c.result.records_processed + c.result.duplicates_skipped = Len(c.data)

\* C29: an append_data call has returned that found rows in staging, skipped
\* the first record of its batch and inserted the second
C29_Witness ==
    \E i \in DOMAIN calls :
        /\ calls[i].op = "append_data" /\ Returned(calls[i])
        /\ calls[i].pre.staging[calls[i].table] # << >>
        /\ KeptPositions(calls[i].data, calls[i].table,
                         KeysPresent(calls[i].pre, calls[i].table)) = { 2 }
        /\ Len(RowsAdded(calls[i].pre, PostDb(i), calls[i].table)) = 1
        /\ calls[i].result.duplicates_skipped = 1

-----------------------------------------------------------------------------
(* Properties of the control entry of a call (LedgerSpec) *)

\* the callers inside append_data or replace_data, past record_processing_start
InsideCall(w) == workers[w].pc \in { "started", "read", "inserted" }

\* rows of staging and archive, of every table, that carry a batch id
RowsTagged(d, batch_id) ==
    UNION { { <<"staging", t, i>> : i \in RowsOfBatch(d, t, batch_id) } : t \in Tables } \cup
    UNION { { <<"archive", t, i>> :
                i \in { j \in DOMAIN d.archive[t] : d.archive[t][j].BatchId = batch_id } } :
            t \in Tables }

\* the batch ids for which a control entry has been written
BatchesStarted(d) == { d.control[k].LastBatchId : k \in DOMAIN d.control }

\* the rows a call is to insert: the new records for append_data, the batch for replace_data
RowsToInsert(me) == IF me.op = "append_data" THEN me.new_data ELSE me.data

\* in every state: a call past record_processing_start has its entry, which is
\* IN_PROGRESS; every row carries the batch id of an entry; a SUCCESS entry
\* counts the rows of its batch, and its call has returned
EntryBracketsState ==
    /\ \A w \in Workers :
          InsideCall(w) =>
             ( /\ workers[w].control_id \in DOMAIN db.control
               /\ db.control[workers[w].control_id].LastBatchId = workers[w].batch_id
               /\ db.control[workers[w].control_id].DataType = workers[w].table
               /\ db.control[workers[w].control_id].Status = "IN_PROGRESS" )
    /\ \A t \in Tables :
          /\ \A i \in DOMAIN db.staging[t] : db.staging[t][i].BatchId \in BatchesStarted(db)
          /\ \A i \in DOMAIN db.archive[t] : db.archive[t][i].BatchId \in BatchesStarted(db)
    /\ \A k \in DOMAIN db.control :
          db.control[k].Status = "SUCCESS" =>
             ( /\ db.control[k].RecordsProcessed =
                    Some(Cardinality(RowsTagged(db, db.control[k].LastBatchId)))
               /\ \A w \in Workers :
                     ( workers[w].batch_id = db.control[k].LastBatchId ) =>
                        ( /\ workers[w].pc = "returned"
                          /\ db.control[k].RecordsProcessed =
                                Some(Len(RowsToInsert(workers[w]))) ) )

\* in every step: the keys of staging are read, and staging or archive are
\* changed, by a call whose entry is IN_PROGRESS; an entry becomes SUCCESS in
\* the step of a call that has committed its inserts, which writes no row
EntryBracketsStep ==
    /\ \A w \in Workers :
          ( workers[w].pc = "started" /\ workers'[w].pc = "read" ) =>
             ( db.control[workers[w].control_id].Status = "IN_PROGRESS" )
    /\ ( db'.staging # db.staging \/ db'.archive # db.archive ) =>
          ( \E w \in Workers :
               /\ workers'[w] # workers[w]
               /\ InsideCall(w)
               /\ db.control[workers[w].control_id].Status = "IN_PROGRESS" )
    /\ \A k \in DOMAIN db.control :
          ( db.control[k].Status # "SUCCESS" /\ db'.control[k].Status = "SUCCESS" ) =>
             ( \E w \in Workers :
                  /\ workers[w].control_id = k
                  /\ workers[w].pc = "inserted" /\ workers'[w].pc = "returned"
                  /\ db'.staging = db.staging /\ db'.archive = db.archive )

\* C30: in append_data and replace_data the control entry is written with
\* Status = IN_PROGRESS before any read or mutation of staging or archive, and
\* it is set to SUCCESS only after all inserts of the batch are committed,
\* with RecordsProcessed equal to the number of rows inserted (new records for
\* APPEND, len(batch) for REPLACE).
C30_ControlEntryBracketsWrites == []EntryBracketsState /\ [][EntryBracketsStep]_vars

\* C30: a replace_data call has archived a row, inserted its batch and set its
\* entry to SUCCESS, and an append_data call has done so with a new record
C30_Witness ==
    \E w1, w2 \in Workers :
        /\ workers[w1].op = "replace_data" /\ workers[w1].pc = "returned"
        /\ workers[w1].data # << >>
        /\ db.archive[workers[w1].table] # << >>
        /\ db.control[workers[w1].control_id].Status = "SUCCESS"
        /\ db.control[workers[w1].control_id].RecordsProcessed = Some(Len(workers[w1].data))
        /\ workers[w2].op = "append_data" /\ workers[w2].pc = "returned"
        /\ workers[w2].new_data # << >>
        /\ db.control[workers[w2].control_id].Status = "SUCCESS"
        /\ db.control[workers[w2].control_id].RecordsProcessed = Some(1)

-----------------------------------------------------------------------------
(* Properties of the LastProcessedDate of an order batch (ResumeSpec) *)

\* the purchase dates the records of a batch carry
DatesOf(batch) ==
    { batch[i].PurchaseDate[2] : i \in { j \in DOMAIN batch : "PurchaseDate" \in DOMAIN batch[j] } }

\* the control entries written for a batch id
EntriesOfBatch(batch_id) ==
    { k \in DOMAIN db.control : db.control[k].LastBatchId = batch_id }

\* C31: the LastProcessedDate recorded for an order batch is the maximum
\* PurchaseDate among the records of the batch that carry one, whatever the
\* order of the records in the batch (the maximum, not the last one seen).
C31_LastProcessedDateIsBatchMaximum ==
    \A i \in DOMAIN handed :
        handed[i].raised = "none" =>
           /\ EntriesOfBatch(handed[i].result.batch_id) # { }
           /\ \A k \in EntriesOfBatch(handed[i].result.batch_id) :
                 /\ db.control[k].LastProcessedDate # None
                 /\ db.control[k].LastProcessedDate[1] \in DatesOf(handed[i].batch)
                 /\ \A d \in DatesOf(handed[i].batch) : d <= db.control[k].LastProcessedDate[1]

\* C31: a batch was written whose last record is older than an earlier one
C31_Witness ==
    \E i \in DOMAIN handed :
        /\ handed[i].raised = "none"
        /\ Len(handed[i].batch) = 2
        /\ "PurchaseDate" \in DOMAIN handed[i].batch[1]
        /\ "PurchaseDate" \in DOMAIN handed[i].batch[2]
        /\ handed[i].batch[1].PurchaseDate[2] > handed[i].batch[2].PurchaseDate[2]
        /\ \E k \in EntriesOfBatch(handed[i].result.batch_id) :
              db.control[k].LastProcessedDate = Some(handed[i].batch[1].PurchaseDate[2])

-----------------------------------------------------------------------------
(* Properties of a batch without temporal key (PagingSpec) *)

\* chunk c is over, every invocation of get_orders made for it returned a page,
\* and none of the records fetched carries a PurchaseDate
UndatedChunk(c) ==
    /\ ChunkOver(c)
    /\ FetchedOf(c) # << >>
    /\ \A k \in DOMAIN ChunkEntries(c) : ChunkEntries(c)[k].outcome = "ok"
    /\ \A k \in DOMAIN FetchedOf(c) : "PurchaseDate" \notin DOMAIN FetchedOf(c)[k]

\* C32: an order batch in which no record carries a temporal key
\* (PurchaseDate) is still written to staging and counted in total_processed;
\* the absence of the optional temporal key does not make the batch fail or
\* its records be dropped.
C32_UndatedBatchStillWritten ==
    \A c \in 1..Len(Chunks) :
        UndatedChunk(c) =>
           /\ ~ChunkFailed(c)
           /\ WrittenOf(c) = FetchedOf(c)
           /\ total_stats.total_processed >= Len(FetchedOf(c))

-----------------------------------------------------------------------------
(* Properties of the order buffer (BufferSpec) *)

\* the records of the batches handed to the staging store for chunk c, in the
\* order they were handed over
HandedRecords(c) == Concat([ k \in DOMAIN HandedFor(c) |-> HandedFor(c)[k].batch ])

\* C33: for a chunk of process_orders that completes without failure, the
\* concatenation of the batches handed to the staging store, in the order they
\* are handed over, equals the concatenation of the records of the fetched
\* pages in fetch order: no record is reordered, duplicated or omitted by the
\* buffer.
C33_BufferKeepsFetchOrder ==
    \A c \in 1..Len(Chunks) :
        ( ChunkOver(c) /\ ~ChunkFailed(c) ) => HandedRecords(c) = FetchedOf(c)

\* C33: a chunk has completed without failure whose second batch starts with
\* what the first flush left in the buffer
C33_Witness ==
    \E c \in 1..Len(Chunks) :
        /\ ChunkOver(c) /\ ~ChunkFailed(c)
        /\ Len(HandedFor(c)) = 2
        /\ Len(FetchedOf(c)) = 2
        /\ FetchedOf(c)[1] # FetchedOf(c)[2]
        /\ HandedFor(c)[1].batch = << FetchedOf(c)[1] >>
        /\ HandedFor(c)[2].batch = << FetchedOf(c)[2] >>

-----------------------------------------------------------------------------
(* Properties of the date chunks (FairChunkingSpec) *)

\* chunks made so far of the range from start to end with chunk length d: the
\* first starts at start, each next one where the previous ended, none is
\* empty or ends after end, and each has length d unless it ends at end
ChunksSoFar(chunks, start, end, d) ==
    /\ chunks # << >> => start < end /\ chunks[1].start = start
    /\ \A i \in DOMAIN chunks :
          /\ chunks[i].start < chunks[i].end
          /\ chunks[i].end <= end
          /\ chunks[i].end - chunks[i].start <= d
          /\ chunks[i].end < end => chunks[i].end - chunks[i].start = d
          /\ i < Len(chunks) => /\ chunks[i + 1].start = chunks[i].end
                                /\ chunks[i].end - chunks[i].start = d

\* all the chunks of the range: none when start >= end, else the last ends at end
WellChunked(chunks, start, end, d) ==
    /\ ChunksSoFar(chunks, start, end, d)
    /\ IF start >= end THEN chunks = << >>
       ELSE chunks # << >> /\ chunks[Len(chunks)].end = end

\* the call of an entry point is over
ChunkLoopOver == IF outer.pc = "idle" THEN pc = "done" ELSE outer.pc = "done"

\* C34: for any start < end, the date chunks produced by _chunk_date_range
\* (d = 7 days) and by the chunk loop of SPAPIProcessor.process_orders (d = 30
\* days) are contiguous and non-overlapping, the first starts at start, each
\* next one starts where the previous ended, the last ends at end, every chunk
\* but the last has length exactly d and the last at most d; when start >= end
\* no chunk is produced; the loop terminates.
C34_ChunksTileTheRange ==
    /\ [] WellChunked(Chunks, cfg.start_date, cfg.end_date, ChunkDays)
    /\ [] ChunksSoFar(outer.chunks, outer.start_date, outer.end_date, ProcessorChunkDays)
    /\ [] ( outer.pc = "done" =>
               WellChunked(outer.chunks, outer.start_date, outer.end_date, ProcessorChunkDays) )
    /\ <> ChunkLoopOver

\* C34: SPAPIProcessor.process_orders has returned after three chunks, the last
\* one shorter than 30 days and itself split into chunks of 7 days and a rest
C34_Witness ==
    /\ outer.pc = "done"
    /\ Len(outer.chunks) = 3
    /\ outer.chunks[3].end - outer.chunks[3].start < ProcessorChunkDays
    /\ Len(Chunks) >= 2
    /\ Chunks[Len(Chunks)].end - Chunks[Len(Chunks)].start < ChunkDays
    /\ pc = "done"

-----------------------------------------------------------------------------
(* Properties of the archive (ArchiveSpec) *)

\* the archive rows of the state before a call are those of the state after
\* it, in place and unchanged, possibly followed by new ones
ArchiveKept(pre, post) ==
    \A t \in Tables :
        /\ Len(post.archive[t]) >= Len(pre.archive[t])
        /\ SubSeq(post.archive[t], 1, Len(pre.archive[t])) = pre.archive[t]

\* C35: archive rows are append-only: across any sequence of append_data,
\* replace_data and archive_data calls, no archive row is ever deleted or
\* modified, and append_data never adds an archive row.
C35_ArchiveAppendOnly ==
    [][ /\ ArchiveKept(db, db')
        /\ ( calls' # calls /\ calls'[Len(calls')].op = "append_data" )
              => db'.archive = db.archive ]_vars

\* C35: an archive_data call has archived a staged row, and an append_data
\* call made after it has inserted a record and left the archive as it was
C35_Witness ==
    /\ Len(calls) = 3
    /\ calls[1].op = "append_data" /\ Returned(calls[1])
    /\ calls[2].op = "archive_data" /\ Returned(calls[2])
    /\ calls[3].pre.archive[calls[2].table] # << >>
    /\ calls[3].op = "append_data" /\ Returned(calls[3])
    /\ calls[3].result.records_processed = 1
    /\ db.archive = calls[3].pre.archive

-----------------------------------------------------------------------------
(* Properties of the keys of the RateLimiter (LimiterSpec) *)

\* the returns of acquire for a key that no return for the key precedes
FirstReturns ==
    { i \in DOMAIN rl.returns :
        \A k \in 1..(i - 1) : rl.returns[k].endpoint # rl.returns[i].endpoint }

\* the last-call time of a key is the same in two states of the RateLimiter
SameLastCall(l1, l2, e) ==
    /\ e \in DOMAIN l1.last_call_time <=> e \in DOMAIN l2.last_call_time
    /\ e \in DOMAIN l1.last_call_time => l1.last_call_time[e] = l2.last_call_time[e]

\* a step in which coroutine c has called acquire(e) and begun to sleep: its
\* own key was returned less than minimum_interval ago, and the sleep is what
\* is left of the interval of that key, with the jitter
SleepsOnOwnKey(c, e) ==
    /\ e \in DOMAIN rl.last_call_time
    /\ rl.now - rl.last_call_time[e] < rl.minimum_interval
    /\ rl'.co[c].read = Some(rl.last_call_time[e])
    /\ rl'.co[c].wake - rl.now \in
          { rl.minimum_interval - (rl.now - rl.last_call_time[e]) + j : j \in 0..MaxJitter }

\* C36: the first acquire for a key never waits, and acquire(k1) neither reads
\* nor changes the last-call time of any other key k2, so a call on one
\* endpoint is never delayed by calls on another endpoint.
C36_KeysIndependent ==
    /\ [] \A i \in FirstReturns : ~rl.returns[i].slept /\ rl.returns[i].read = None
    /\ [][ /\ \A c \in DOMAIN rl.co :
               ( rl.co[c].pc = "idle" /\ rl'.co[c].pc = "sleeping" ) =>
                   /\ SleepsOnOwnKey(c, rl'.co[c].endpoint)
                   /\ \A e \in Endpoints : SameLastCall(rl, rl', e)
           /\ rl'.returns # rl.returns =>
                 \A e \in Endpoints \ { rl'.returns[Len(rl'.returns)].endpoint } :
                    SameLastCall(rl, rl', e)
           /\ rl'.returns = rl.returns => \A e \in Endpoints : SameLastCall(rl, rl', e)
         ]_vars

\* C36: the first acquire for a key has returned at once, less than
\* minimum_interval after a return for the other key, whose last-call time
\* is as that return left it
C36_Witness ==
    \E i, j \in DOMAIN rl.returns :
       /\ i < j
       /\ j \in FirstReturns
       /\ rl.returns[i].endpoint # rl.returns[j].endpoint
       /\ rl.returns[j].at - rl.returns[i].at < rl.minimum_interval
       /\ ~rl.returns[j].slept
       /\ rl.last_call_time[rl.returns[i].endpoint] = rl.returns[i].at

-----------------------------------------------------------------------------
(* Properties of the run statistics (EntrySpec) *)

RECURSIVE SumOf(_, _)
\* the sum of a field over a sequence of statistics
SumOf(stats, field) ==
    IF stats = << >> THEN 0 ELSE Head(stats)[field] + SumOf(Tail(stats), field)

RECURSIVE ReturnedSizes(_)
\* the sizes, added up, of the batches whose write returned
ReturnedSizes(written) ==
    IF written = << >> THEN 0
    ELSE (IF Head(written).raised = "none" THEN Len(Head(written).batch) ELSE 0)
            + ReturnedSizes(Tail(written))

\* C37: in every state of a run and in the returned statistics, total_batches
\* equals the length of batch_ids, total_processed equals the sum of the sizes
\* of the batches whose write returned successfully, errors is at most the
\* number of chunks, and the statistics of SPAPIProcessor.process_orders are
\* the field-wise sums (batch_ids concatenated in chunk order) of the
\* statistics of its 30-day chunks.
C37_StatisticsAddUp ==
    /\ total_stats.total_batches = Len(total_stats.batch_ids)
    /\ total_stats.total_processed = ReturnedSizes(handed)
    /\ total_stats.errors <= Len(Chunks)
    /\ outer.total_stats.total_processed = SumOf(outer.chunk_stats, "total_processed")
    /\ outer.total_stats.total_batches = SumOf(outer.chunk_stats, "total_batches")
    /\ outer.total_stats.errors = SumOf(outer.chunk_stats, "errors")
    /\ outer.total_stats.batch_ids =
          Concat([ k \in DOMAIN outer.chunk_stats |-> outer.chunk_stats[k].batch_ids ])
    /\ outer.pc = "done" => Len(outer.chunk_stats) = Len(outer.chunks)

\* C37: SPAPIProcessor.process_orders has returned the sums of two chunks, one
\* of which wrote a batch and one of which counted an error
C37_Witness ==
    /\ outer.pc = "done"
    /\ Len(outer.chunk_stats) = 2
    /\ \E k \in DOMAIN outer.chunk_stats : outer.chunk_stats[k].total_batches = 1
    /\ \E k \in DOMAIN outer.chunk_stats : outer.chunk_stats[k].errors = 1
    /\ outer.total_stats.total_processed = 1
    /\ outer.total_stats.errors = 1
    /\ Len(outer.total_stats.batch_ids) = 1

-----------------------------------------------------------------------------
(* Properties of the control entry of a call that has ended (LedgerSpec) *)

\* the control entries whose call is still inside append_data or replace_data
EntriesOfOpenCalls ==
    { k \in DOMAIN db.control :
        \E w \in Workers : InsideCall(w) /\ workers[w].control_id = k }

\* every entry of a call that has returned or raised is SUCCESS or ERROR
EndedCallsSettled ==
    \A k \in DOMAIN db.control \ EntriesOfOpenCalls :
        db.control[k].Status \in { "SUCCESS", "ERROR" }

\* no step changes the status of an entry that is SUCCESS or ERROR
SettledStatusKept ==
    \A k \in DOMAIN db.control :
        db.control[k].Status \in { "SUCCESS", "ERROR" } =>
            db'.control[k].Status = db.control[k].Status

\* C38: once the append_data or replace_data call that created a control entry
\* has ended, by returning or by raising, that entry is SUCCESS or ERROR and
\* never IN_PROGRESS, also when the update of the control entry itself is the
\* step that fails; and an entry that is SUCCESS or ERROR never changes status
\* afterwards.
C38_EndedCallLeavesSettledEntry ==
    []EndedCallsSettled /\ [][SettledStatusKept]_vars

-----------------------------------------------------------------------------
(* Properties of the ledger and the rows of its batches (SmallStoreSpec) *)

\* the number of rows, in staging or moved to the archive since, that were
\* inserted with the batch id of control entry k
RowsInsertedFor(k) == Cardinality(RowsTagged(db, db.control[k].LastBatchId))

\* C39: the control ledger agrees with the staging inserts: a control entry
\* with Status = ERROR means no row was inserted into staging with its batch
\* id, and a control entry with Status = SUCCESS and RecordsProcessed = n means
\* exactly n rows were inserted with its batch id, whichever step of
\* append_data or replace_data fails.
C39_LedgerAgreesWithInserts ==
    \A k \in DOMAIN db.control :
        /\ db.control[k].Status = "ERROR" => RowsInsertedFor(k) = 0
        /\ db.control[k].Status = "SUCCESS" =>
              db.control[k].RecordsProcessed = Some(RowsInsertedFor(k))

=============================================================================
